---- MODULE Spec2Model ----
(***************************************************************************)
(* GroundCrew fact-checking pipeline (groundcrew/agents.py, workflow.py).  *)
(*                                                                         *)
(* One run threads a FactCheckState through four stages:                   *)
(*   extract_claims -> search_evidence -> verify_claims -> generate_report *)
(* The language model and the search provider are the environment: every   *)
(* call either raises or returns a value drawn from a small set.           *)
(*                                                                         *)
(* Numbers in [0, 1] (confidence, completeness_score, threshold) are kept  *)
(* in thousandths: 700 stands for 0.7.                                     *)
(***************************************************************************)
EXTENDS Integers, Sequences, FiniteSets, TLC

VARIABLES
    pc,                   \* stage the run is in
    input_text,           \* FactCheckState.input_text
    claims,               \* FactCheckState.claims
    evidence_map,         \* FactCheckState.evidence_map (claim text -> evidence list)
    verdicts,             \* FactCheckState.verdicts
    final_report,         \* FactCheckState.final_report
    error,                \* FactCheckState.error
    confidence_threshold, \* VerificationAgent.confidence_threshold
    s_i,                  \* search_evidence: index of the next claim of the loop
    s_map,                \* search_evidence: local evidence_map
    s_results,            \* search_evidence: what the searches of the last claim returned
    v_i,                  \* verify_claims: index of the next claim of the loop
    v_verdicts,           \* verify_claims: local verdicts list
    extracted,            \* history: what the extraction call did
    qgenLog,              \* history: per claim, what the query-generation call did
    searchLog,            \* history: search requests issued, in order
    s1Log,                \* history: per claim, what the completeness call did
    s2Log,                \* history: per claim, what the verdict call did
    trace,                \* history: the graph nodes that have run, in order
    reportLog,            \* history: what the report call did
    calls,                \* history: verifier model calls, in order
    entry,                \* who calls run_fact_check: "cli", "eval" or "api"
    openai_key,           \* OPENAI_API_KEY is set
    tavily_key,           \* TAVILY_API_KEY is set
    wikipedia_only,       \* main.py: --wikipedia-only was given
    exit_status,          \* status the entry point ended with
    exit_message,         \* error the entry point ended with
    search_domain,        \* EvidenceSearchAgent.search_domain
    run,                  \* number of run_fact_check calls started
    prev,                 \* history: what each finished run gave
    memo,                 \* history: the answer each collaborator gave to each input
    det,                  \* the collaborators are functions of their inputs
    fever_data,           \* evaluate_on_fever: the label of each loaded item
    started,              \* worker pool: items a worker has taken up
    futures,              \* worker pool: item -> result entry of a finished task
    collected,            \* evaluate_on_fever: futures the loop has consumed
    results,              \* evaluate_on_fever: results
    correct,              \* evaluate_on_fever: correct
    total,                \* evaluate_on_fever: total
    label_stats,          \* evaluate_on_fever: label_stats
    runs,                 \* worker pool: item -> what its run_fact_check call did
    pool                  \* worker pool: item -> the run_fact_check call under way

vars == <<pc, input_text, claims, evidence_map, verdicts, final_report, error,
          confidence_threshold, s_i, s_map, s_results, v_i, v_verdicts,
          extracted, qgenLog, searchLog, s1Log, s2Log, trace, reportLog, calls,
          entry, openai_key, tavily_key, wikipedia_only, exit_status,
          exit_message, search_domain, run, prev, memo, det,
          fever_data, started, futures, collected, results, correct, total,
          label_stats, runs, pool>>

\* the locals of evaluate_on_fever and the state of its worker pool
batchVars == <<fever_data, started, futures, collected, results, correct, total,
               label_stats, runs, pool>>

\* what no pipeline stage writes
callerVars == <<entry, openai_key, tavily_key, wikipedia_only, exit_status,
                exit_message, search_domain, run, prev, det, batchVars>>

stateVars == <<input_text, claims, evidence_map, verdicts, final_report, error>>

(***************************************************************************)
(* Bounds and program constants                                            *)
(***************************************************************************)
MaxClaims == 2

DefaultPriority == 5
QueryLimit == 2
MaxResults == 3
EvidenceShownLimit == 5
EvidenceUsedLimit == 3
CompletenessFloor == 700
DefaultThreshold == 700

Texts == {"a", "b"}
InputText == "in"

Min(x, y) == IF x <= y THEN x ELSE y

\* Python slice s[:n]
Take(s, n) == SubSeq(s, 1, Min(n, Len(s)))

EmptyMap == [t \in {} |-> <<>>]

\* d[k] = v
MapPut(m, k, v) == [x \in DOMAIN m \cup {k} |-> IF x = k THEN v ELSE m[x]]

\* a default other than the empty list
MapGet_Placeholder(m, k) ==
    IF k \in DOMAIN m THEN m[k]
    ELSE <<[source |-> <<0, 1, 1>>, snippet |-> 0, relevance_score |-> 0]>>

\* d.get(k, [])
MapGet(m, k) == IF k \in DOMAIN m THEN m[k] ELSE <<>>

SeqsUpTo(S, n) == UNION {[1..k -> S] : k \in 0..n}

(***************************************************************************)
(* Collaborators that are functions of their inputs                        *)
(***************************************************************************)
NoMemo ==
    [extract |-> EmptyMap, qgen |-> EmptyMap, search |-> EmptyMap,
     complete |-> EmptyMap, verdict |-> EmptyMap, report |-> EmptyMap]

\* A deterministic collaborator answers an input it has seen as it did before.
Answers(call, key, o) ==
    det => (key \in DOMAIN memo[call] => memo[call][key] = o)

Remember(m, call, key, o) ==
    IF det THEN [m EXCEPT ![call] = MapPut(@, key, o)] ELSE m

RECURSIVE RememberSearches(_, _, _, _)
RememberSearches(m, issued, so, n) ==
    IF n = 0 THEN m
    ELSE Remember(RememberSearches(m, issued, so, n - 1), "search", issued[n], so[n])

(***************************************************************************)
(* Data model (groundcrew/models.py)                                       *)
(***************************************************************************)
Claim(t, p) == [text |-> t, priority |-> p]

\* One result of the search provider. The content is kept as its length in
\* characters; score is NoScore when the result has no 'score' key.
NoScore == -1
ProviderResult(len, score) == [content |-> len, score |-> score]
PlainResult == ProviderResult(100, 900)

SnippetLimit == 500
DefaultScore == 500

\* result.get('content', '')[:500]: a prefix, kept as its length
Snippet(result) == Min(result.content, SnippetLimit)

\* the Evidence model's own default is used for a missing score
RelevanceScore_ModelDefault(result) ==
    IF result.score = NoScore THEN 0 ELSE result.score

\* result.get('score', 0.5)
RelevanceScore(result) ==
    IF result.score = NoScore THEN DefaultScore ELSE result.score

\* Evidence(source=url, snippet=content[:500], relevance_score=score); the
\* source names the search that returned the result: the claim the search
\* was issued for, the query's position, the rank.
EvidenceFrom(owner, q, r, result) ==
    [source |-> <<owner, q, r>>, snippet |-> Snippet(result),
     relevance_score |-> RelevanceScore(result)]

\* An Evidence item made from a plain result.
Evidence(owner, q, r) == EvidenceFrom(owner, q, r, PlainResult)

Statuses == {"SUPPORTS", "REFUTES", "NOT ENOUGH INFO"}

Verdict(c, st, conf, just, used) ==
    [claim |-> c, status |-> st, confidence |-> conf,
     justification |-> just, evidence_used |-> used]

(***************************************************************************)
(* Environment: what the model and the search provider may answer          *)
(***************************************************************************)
\* Claims the extraction model may return: equal priorities with different
\* texts, equal texts with different priorities, and repeated claims.
ClaimPool == {Claim("a", 5), Claim("b", 5), Claim("a", 8)}

Raised == "raised"
Returned == "returned"
NotCalled == "none"

\* the entry point has not ended
NoExit == -1

\* ClaimsList results of the extraction call, or a failure.
ExtractOutcomes ==
    {[res |-> Raised, claims |-> <<>>]}
        \cup {[res |-> Returned, claims |-> l] : l \in SeqsUpTo(ClaimPool, MaxClaims)}

GeneratedQueries == <<"q1", "q2", "q3">>

\* SearchQueries results of the query-formulation call, or a failure.
QGenOutcomes(Lens) ==
    {[res |-> Raised, queries |-> <<>>]}
        \cup {[res |-> Returned, queries |-> Take(GeneratedQueries, n)] : n \in Lens}

\* Results of one search request: a failure, or 'count' plain results.
SearchOutcomes(Counts) ==
    {[res |-> Raised, count |-> 0, results |-> <<>>]}
        \cup {[res |-> Returned, count |-> k, results |-> [r \in 1..k |-> PlainResult]]
                 : k \in Counts}

NoCompleteness ==
    [res |-> NotCalled, is_complete |-> FALSE, completeness_score |-> 0,
     missing_elements |-> ""]

CompletenessRaised ==
    [res |-> Raised, is_complete |-> FALSE, completeness_score |-> 0,
     missing_elements |-> ""]

\* EvidenceCompletenessCheck results of the completeness call.
CompletenessCheck(c, s) ==
    [res |-> Returned, is_complete |-> c, completeness_score |-> s,
     missing_elements |-> "m"]

CompletenessOutcomes(Scores) ==
    {CompletenessRaised} \cup {CompletenessCheck(c, s) : c \in BOOLEAN, s \in Scores}

NoJudgment ==
    [res |-> NotCalled, status |-> "", confidence |-> 0, justification |-> ""]

JudgmentRaised ==
    [res |-> Raised, status |-> "", confidence |-> 0, justification |-> ""]

\* VerdictOutput results of the verdict call.
VerdictOutput(st, conf) ==
    [res |-> Returned, status |-> st, confidence |-> conf, justification |-> "j"]

JudgmentOutcomes(Sts, Confs) ==
    {JudgmentRaised} \cup {VerdictOutput(st, c) : st \in Sts, c \in Confs}

\* A response of the verdict model that does not fit the VerdictOutput
\* schema: its status is none of the three literals.
OffSchemaJudgments == {VerdictOutput("MAYBE", 900)}

\* Responses whose number is outside [0, 1]: a confidence of 1.2 from the
\* verdict model, a completeness_score of 1.2 from the completeness model.
OutOfRangeJudgments == {VerdictOutput("SUPPORTS", 1200)}
OutOfRangeChecks == {CompletenessCheck(FALSE, 1200)}

(***************************************************************************)
(* The workflow graph (create_fact_check_workflow)                         *)
(***************************************************************************)
\* a graph whose search node leads straight to the report node
NextNode_SkipsVerify(node) ==
    CASE node = "extract" -> "search"
      [] node = "search" -> "report"
      [] node = "verify" -> "report"
      [] node = "report" -> "done"

\* add_edge: extract_claims -> search_evidence -> verify_claims ->
\* generate_report -> END
NextNode(node) ==
    CASE node = "extract" -> "search"
      [] node = "search" -> "verify"
      [] node = "verify" -> "report"
      [] node = "report" -> "done"

(***************************************************************************)
(* ClaimExtractionAgent.extract_claims                                     *)
(***************************************************************************)
\* an unstable descending sort: a claim goes before the claims of equal
\* priority that precede it in the input
InsertByPriority_Unstable(sorted, c) ==
    SelectSeq(sorted, LAMBDA x : x.priority > c.priority)
        \o <<c>>
        \o SelectSeq(sorted, LAMBDA x : x.priority <= c.priority)

\* sorted(..., reverse=True) is stable: a claim goes after every claim of
\* greater or equal priority that precedes it in the input.
InsertByPriority(sorted, c) ==
    SelectSeq(sorted, LAMBDA x : x.priority >= c.priority)
        \o <<c>>
        \o SelectSeq(sorted, LAMBDA x : x.priority < c.priority)

RECURSIVE SortByPriorityDesc(_)
SortByPriorityDesc(l) ==
    IF l = <<>> THEN <<>>
    ELSE InsertByPriority(SortByPriorityDesc(SubSeq(l, 1, Len(l) - 1)), l[Len(l)])

\* the failure of the extraction call leaves no message
ExtractionError_Silent == ""

\* f"Claim extraction error: {str(e)}"
ExtractionError == "Claim extraction error: e"

\* Fallback: treat entire input as single claim
FallbackClaims_Empty(text) == <<>>

FallbackClaims(text) == <<Claim(text, DefaultPriority)>>

\* an extraction that returns no claim falls back to the input text too
ExtractedClaims_NeverEmpty(o, text) ==
    IF o.res = Returned /\ o.claims # <<>>
    THEN SortByPriorityDesc(o.claims)
    ELSE FallbackClaims(text)

\* state.claims after the try/except of extract_claims
ExtractedClaims(o, text) ==
    IF o.res = Returned
    THEN SortByPriorityDesc(o.claims)
    ELSE FallbackClaims(text)

ExtractClaims(o) ==
    /\ pc = "extract"
    /\ claims' = ExtractedClaims(o, input_text)
    /\ error' = IF o.res = Returned THEN error ELSE ExtractionError
    /\ Answers("extract", input_text, o)
    /\ memo' = Remember(memo, "extract", input_text, o)
    /\ extracted' = o
    /\ pc' = NextNode("extract")
    /\ trace' = Append(trace, "extract")
    /\ s_i' = 1
    /\ s_map' = EmptyMap
    /\ s_results' = <<>>
    /\ UNCHANGED <<input_text, evidence_map, verdicts, final_report,
                   confidence_threshold, v_i, v_verdicts,
                   qgenLog, searchLog, s1Log, s2Log, reportLog, calls, callerVars>>

(***************************************************************************)
(* EvidenceSearchAgent.search_evidence                                     *)
(***************************************************************************)
\* no query at all when the generation failed
QueriesFor_NoFallback(claim, qo) == qo.queries

\* queries of a claim: the generated ones, or the claim text on failure
QueriesFor(claim, qo) ==
    IF qo.res = Returned THEN qo.queries ELSE <<claim.text>>

\* queries[-2:]
IssuedQueries_LastTwo(queries) ==
    SubSeq(queries, Len(queries) - Min(Len(queries), QueryLimit) + 1, Len(queries))

\* queries[:2]
IssuedQueries(queries) == Take(queries, QueryLimit)

NoDomain == ""

\* search_params; include_domains is <<>> when the key is not set
SearchRequest(owner, query) ==
    [owner |-> owner, query |-> query, max_results |-> MaxResults,
     search_depth |-> "advanced",
     include_domains |-> IF search_domain # NoDomain THEN <<search_domain>> ELSE <<>>]

\* Evidence built from one search request's results; none when it raised.
ResultsOf(owner, j, so) ==
    IF so.res = Returned
    THEN [r \in 1..Len(so.results) |-> EvidenceFrom(owner, j, r, so.results[r])]
    ELSE <<>>

\* a failing search empties the claim's list
Collected_ResetOnFailure(evidence_list, owner, j, so) ==
    IF so.res = Raised THEN <<>> ELSE evidence_list \o ResultsOf(owner, j, so)

\* evidence_list after the try block of query j: one append per result, or
\* the list as it was when the search raised (except: print, continue)
Collected(evidence_list, owner, j, so) ==
    evidence_list \o ResultsOf(owner, j, so)

RECURSIVE CollectEvidence(_, _, _)
CollectEvidence(owner, n, so) ==
    IF n = 0 THEN <<>>
    ELSE Collected(CollectEvidence(owner, n - 1, so), owner, n, so[n])

\* a failed query generation is recorded in state.error
ErrorAfterQGen_Recorded(err, qo) ==
    IF qo.res = Raised THEN "Query generation error: e" ELSE err

\* state.error after the query generation of one claim: its except block
\* prints the failure and assigns queries only
ErrorAfterQGen(err, qo) == err

\* the evidence is filed under the first query issued for the claim
EvidenceKey_FirstQuery(claim, issued) ==
    IF Len(issued) > 0 THEN issued[1] ELSE claim.text

\* evidence_map[claim.text] = evidence_list
EvidenceKey(claim, issued) == claim.text

\* One iteration of the loop over state.claims.
SearchClaim(qo, so) ==
    /\ pc = "search"
    /\ s_i <= Len(claims)
    /\ LET claim == claims[s_i]
           issued == IssuedQueries(QueriesFor(claim, qo))
           evidence_list == CollectEvidence(s_i, Len(issued), so)
       IN  /\ Answers("qgen", claim.text, qo)
           /\ \A j \in 1..Len(issued) : Answers("search", issued[j], so[j])
           /\ memo' = RememberSearches(Remember(memo, "qgen", claim.text, qo),
                                       issued, so, Len(issued))
           /\ s_map' = MapPut(s_map, EvidenceKey(claim, issued), evidence_list)
           /\ searchLog' = searchLog \o
                  [j \in 1..Len(issued) |-> SearchRequest(s_i, issued[j])]
           /\ s_results' = [j \in 1..Len(issued) |-> so[j]]
    /\ qgenLog' = Append(qgenLog, qo)
    /\ error' = ErrorAfterQGen(error, qo)
    /\ s_i' = s_i + 1
    /\ UNCHANGED <<pc, input_text, claims, evidence_map, verdicts, final_report,
                   confidence_threshold, v_i, v_verdicts,
                   extracted, s1Log, s2Log, trace, reportLog, calls, callerVars>>

\* the verdict list outlives the call that built it
LocalVerdicts_Kept == v_verdicts

\* verify_claims begins with verdicts = []
LocalVerdicts == <<>>

\* state.evidence_map = evidence_map; return state; the next node starts
SearchReturn ==
    /\ pc = "search"
    /\ s_i > Len(claims)
    /\ evidence_map' = s_map
    /\ pc' = NextNode("search")
    /\ trace' = Append(trace, "search")
    /\ v_i' = 1
    /\ v_verdicts' = LocalVerdicts
    /\ UNCHANGED <<input_text, claims, verdicts, final_report, error,
                   confidence_threshold, s_i, s_map, s_results,
                   extracted, qgenLog, searchLog, s1Log, s2Log, reportLog, calls,
                   callerVars, memo>>

(***************************************************************************)
(* VerificationAgent.verify_claims                                         *)
(***************************************************************************)
NEI == "NOT ENOUGH INFO"

\* evidence_list[:5], each item formatted as source + snippet
EvidenceText(evidence_list) ==
    [k \in 1..Len(Take(evidence_list, EvidenceShownLimit)) |->
        <<"Source", evidence_list[k].source, "Snippet", evidence_list[k].snippet>>]

\* the slice of the prompt, evidence_list[:5], used for the verdict too
EvidenceUsed_Shown(evidence_list) == Take(evidence_list, EvidenceShownLimit)

\* evidence_list[:3]
EvidenceUsed(evidence_list) == Take(evidence_list, EvidenceUsedLimit)

\* f"{confidence:.2f}": hundredths, rounded
Fmt2(conf) == (conf + 5) \div 10

NoEvidenceVerdict(claim) ==
    Verdict(claim.text, NEI, 1000, <<"No evidence was found for this claim.">>, <<>>)

\* 'and' in place of 'or'
GateStops_Both(check) ==
    /\ ~check.is_complete
    /\ check.completeness_score < CompletenessFloor

\* '<=' in place of '<': a score of exactly 0.7 stops the claim
GateStops_AtFloor(check) ==
    \/ ~check.is_complete
    \/ check.completeness_score <= CompletenessFloor

\* not is_complete or completeness_score < 0.7
GateStops(check) ==
    \/ ~check.is_complete
    \/ check.completeness_score < CompletenessFloor

IncompleteVerdict(claim, evidence_list, check) ==
    Verdict(claim.text, NEI, check.completeness_score,
            <<"Evidence is incomplete. Missing: ", check.missing_elements>>,
            EvidenceUsed(evidence_list))

\* the literal 0.7 in place of the configured threshold
Downgrades_Literal(vo, threshold) ==
    /\ vo.status # NEI
    /\ vo.confidence < CompletenessFloor

\* the status is not looked at
Downgrades_AnyStatus(vo, threshold) == vo.confidence < threshold

\* status != "NOT ENOUGH INFO" and confidence < self.confidence_threshold
Downgrades(vo, threshold) ==
    /\ vo.status # NEI
    /\ vo.confidence < threshold

\* no confidence floor: the judgment is always persisted as returned
JudgedVerdict_NoFloor(claim, evidence_list, vo, threshold) ==
    Verdict(claim.text, vo.status, vo.confidence, <<vo.justification>>,
            EvidenceUsed(evidence_list))

JudgedVerdict(claim, evidence_list, vo, threshold) ==
    IF Downgrades(vo, threshold)
    THEN Verdict(claim.text, NEI, vo.confidence,
                 <<"Low confidence", Fmt2(vo.confidence), threshold,
                   vo.status, vo.justification>>,
                 EvidenceUsed(evidence_list))
    ELSE Verdict(claim.text, vo.status, vo.confidence, <<vo.justification>>,
                 EvidenceUsed(evidence_list))

FallbackVerdict(claim, evidence_list) ==
    Verdict(claim.text, NEI, 0, <<"Error processing verdict: ", "e">>,
            EvidenceUsed(evidence_list))

\* no short-circuit on empty evidence
ReachesStage1_Always(evidence_list) == TRUE

\* the completeness model is called: evidence_text is not empty
ReachesStage1(evidence_list) == EvidenceText(evidence_list) # <<>>

\* fail closed: a failed completeness call stops the claim too
StopsAtStage1_FailClosed(evidence_list, s1o) ==
    /\ ReachesStage1(evidence_list)
    /\ \/ s1o.res = Raised
       \/ s1o.res = Returned /\ GateStops(s1o)

\* Stage 1 emits the verdict: the call returned and the gate stops
StopsAtStage1(evidence_list, s1o) ==
    /\ ReachesStage1(evidence_list)
    /\ s1o.res = Returned
    /\ GateStops(s1o)

\* the verdict model is called: Stage 1 passed, or its call raised
ReachesStage2(evidence_list, s1o) ==
    /\ ReachesStage1(evidence_list)
    /\ ~StopsAtStage1(evidence_list, s1o)

\* The verdict one loop iteration appends.
VerdictFor(claim, evidence_list, s1o, s2o, threshold) ==
    IF ~ReachesStage1(evidence_list) THEN NoEvidenceVerdict(claim)
    ELSE IF StopsAtStage1(evidence_list, s1o)
         THEN IncompleteVerdict(claim, evidence_list, s1o)
    ELSE IF s2o.res = Returned
         THEN JudgedVerdict(claim, evidence_list, s2o, threshold)
    ELSE FallbackVerdict(claim, evidence_list)

\* Stage 1 without its 'continue': the incomplete verdict is followed by
\* the Stage-2 one.
AppendedVerdicts_NoContinue(claim, evidence_list, s1o, s2o, threshold) ==
    IF StopsAtStage1(evidence_list, s1o)
    THEN <<IncompleteVerdict(claim, evidence_list, s1o),
           IF s2o.res = Returned
           THEN JudgedVerdict(claim, evidence_list, s2o, threshold)
           ELSE FallbackVerdict(claim, evidence_list)>>
    ELSE <<VerdictFor(claim, evidence_list, s1o, s2o, threshold)>>

\* The verdict call without its 'except': a failed call appends nothing.
AppendedVerdicts_NoFallback(claim, evidence_list, s1o, s2o, threshold) ==
    IF ReachesStage2(evidence_list, s1o) /\ s2o.res = Raised
    THEN <<>>
    ELSE <<VerdictFor(claim, evidence_list, s1o, s2o, threshold)>>

\* What one loop iteration appends to verdicts: every path through the loop
\* body reaches exactly one append.
AppendedVerdicts(claim, evidence_list, s1o, s2o, threshold) ==
    <<VerdictFor(claim, evidence_list, s1o, s2o, threshold)>>

\* the {evidence_text} of completeness_prompt
Stage1Prompt(evidence_list) == EvidenceText(evidence_list)

\* the verdict model is shown the evidence the verdict will carry
Stage2Prompt_Used(evidence_list) == EvidenceText(EvidenceUsed(evidence_list))

\* the {evidence_text} of verdict_prompt
Stage2Prompt(evidence_list) == EvidenceText(evidence_list)

\* one model call: which model, for which claim, shown which evidence
ModelCall(model, i, shown) == [model |-> model, claim |-> i, shown |-> shown]

\* a failed completeness call is tried once more
CallsMade_Retry(i, evidence_list, s1o) ==
    (IF ReachesStage1(evidence_list)
     THEN IF s1o.res = Raised
          THEN <<ModelCall("completeness", i, Stage1Prompt(evidence_list)),
                 ModelCall("completeness", i, Stage1Prompt(evidence_list))>>
          ELSE <<ModelCall("completeness", i, Stage1Prompt(evidence_list))>>
     ELSE <<>>)
        \o (IF ReachesStage2(evidence_list, s1o)
            THEN <<ModelCall("verdict", i, Stage2Prompt(evidence_list))>>
            ELSE <<>>)

\* The model calls one loop iteration makes for the claim at position i:
\* completeness_llm.invoke, then verdict_llm.invoke, each where reached.
CallsMade(i, evidence_list, s1o) ==
    (IF ReachesStage1(evidence_list)
     THEN <<ModelCall("completeness", i, Stage1Prompt(evidence_list))>>
     ELSE <<>>)
        \o (IF ReachesStage2(evidence_list, s1o)
            THEN <<ModelCall("verdict", i, Stage2Prompt(evidence_list))>>
            ELSE <<>>)

\* a response outside the schema is passed on as it came
ValidatedJudgment_NoCheck(raw) == raw

\* llm.with_structured_output(VerdictOutput): a response whose status is not
\* one of the three literals, or whose confidence is outside [0, 1], fails
\* validation and invoke raises; the exception carries the response.
ValidatedJudgment(raw) ==
    IF raw.res = Returned /\ (raw.status \notin Statuses \/ raw.confidence \notin 0..1000)
    THEN [raw EXCEPT !.res = Raised]
    ELSE raw

\* verdicts.insert(0, ...): the newest verdict comes first
Extended_AtFront(list, new) == new \o list

\* verdicts.append(...)
Extended(list, new) == list \o new

\* a completeness_score outside [0, 1] is passed on as it came
ValidatedCompleteness_NoCheck(raw) == raw

\* llm.with_structured_output(EvidenceCompletenessCheck), whose
\* completeness_score is a float in 0-1: a response with a score outside
\* [0, 1] fails validation and invoke raises.
ValidatedCompleteness(raw) ==
    IF raw.res = Returned /\ raw.completeness_score \notin 0..1000
    THEN [raw EXCEPT !.res = Raised]
    ELSE raw

\* One iteration of the loop over state.claims.
VerifyClaim(check, raw) ==
    /\ pc = "verify"
    /\ v_i <= Len(claims)
    /\ LET claim == claims[v_i]
           evidence_list == MapGet(evidence_map, claim.text)
           s1o == ValidatedCompleteness(check)
           s2o == ValidatedJudgment(raw)
       IN  /\ v_verdicts' = Extended(v_verdicts,
                  AppendedVerdicts(claim, evidence_list, s1o, s2o, confidence_threshold))
           /\ s1Log' = Append(s1Log,
                  IF ReachesStage1(evidence_list) THEN s1o ELSE NoCompleteness)
           /\ s2Log' = Append(s2Log,
                  IF ReachesStage2(evidence_list, s1o) THEN s2o ELSE NoJudgment)
           /\ calls' = calls \o CallsMade(v_i, evidence_list, s1o)
           /\ ReachesStage1(evidence_list)
                 => Answers("complete", <<claim.text, EvidenceText(evidence_list)>>, check)
           /\ ReachesStage2(evidence_list, s1o)
                 => Answers("verdict", <<claim.text, EvidenceText(evidence_list)>>, raw)
           /\ memo' =
                 LET key == <<claim.text, EvidenceText(evidence_list)>>
                     m1 == IF ReachesStage1(evidence_list)
                           THEN Remember(memo, "complete", key, check) ELSE memo
                 IN  IF ReachesStage2(evidence_list, s1o)
                     THEN Remember(m1, "verdict", key, raw) ELSE m1
    /\ v_i' = v_i + 1
    /\ UNCHANGED <<pc, stateVars, confidence_threshold, s_i, s_map, s_results,
                   extracted, qgenLog, searchLog, trace, reportLog, callerVars>>

\* state.verdicts = verdicts; return state
VerifyReturn ==
    /\ pc = "verify"
    /\ v_i > Len(claims)
    /\ verdicts' = v_verdicts
    /\ pc' = NextNode("verify")
    /\ trace' = Append(trace, "verify")
    /\ UNCHANGED <<input_text, claims, evidence_map, final_report, error,
                   confidence_threshold, s_i, s_map, s_results, v_i, v_verdicts,
                   extracted, qgenLog, searchLog, s1Log, s2Log, reportLog, calls,
                   callerVars, memo>>

(***************************************************************************)
(* ReportingAgent.generate_report                                          *)
(***************************************************************************)
\* a failure of the report call is swallowed and the state returned
ReportExit_Caught(ok) == NextNode("report")

\* Where control goes after self.llm.invoke(messages): no try/except in
\* generate_report, none around workflow.invoke in run_fact_check.
ReportExit(ok) == IF ok THEN NextNode("report") ELSE "aborted"

\* The report call is not guarded: when it raises, the run is aborted.
GenerateReport(ok) ==
    /\ pc = "report"
    /\ final_report' = IF ok THEN "report" ELSE final_report
    /\ pc' = ReportExit(ok)
    /\ Answers("report", <<input_text, verdicts>>, ok)
    /\ memo' = Remember(memo, "report", <<input_text, verdicts>>, ok)
    /\ reportLog' = IF ok THEN Returned ELSE Raised
    /\ trace' = Append(trace, "report")
    /\ UNCHANGED <<input_text, claims, evidence_map, verdicts, error,
                   confidence_threshold, s_i, s_map, s_results, v_i, v_verdicts,
                   extracted, qgenLog, searchLog, s1Log, s2Log, calls, callerVars>>

(***************************************************************************)
(* Specifications                                                          *)
(***************************************************************************)
NoExtraction == [res |-> NotCalled, claims |-> <<>>]

\* label_stats as evaluate_on_fever sets it up
NoStats ==
    [l \in {"SUPPORTS", "REFUTES", "NOT ENOUGH INFO"} |-> [correct |-> 0, total |-> 0]]

\* no evaluation is under way
NoBatch ==
    /\ fever_data = <<>>
    /\ started = {}
    /\ futures = EmptyMap
    /\ collected = {}
    /\ results = <<>>
    /\ correct = 0
    /\ total = 0
    /\ label_stats = NoStats
    /\ runs = EmptyMap
    /\ pool = EmptyMap

\* run_fact_check called directly, once, with both keys and collaborators
\* that need not answer the same input twice alike.
DirectCall ==
    /\ entry = "api"
    /\ openai_key = TRUE
    /\ tavily_key = TRUE
    /\ wikipedia_only = FALSE
    /\ exit_status = NoExit
    /\ exit_message = ""
    /\ search_domain = NoDomain
    /\ run = 1
    /\ prev = <<>>
    /\ memo = NoMemo
    /\ det = FALSE
    /\ NoBatch

\* run_fact_check: FactCheckState(input_text=input_text), default agents
Init ==
    /\ pc = "extract"
    /\ input_text = InputText
    /\ claims = <<>>
    /\ evidence_map = EmptyMap
    /\ verdicts = <<>>
    /\ final_report = ""
    /\ error = ""
    /\ confidence_threshold = DefaultThreshold
    /\ s_i = 1
    /\ s_map = EmptyMap
    /\ s_results = <<>>
    /\ v_i = 1
    /\ v_verdicts = <<>>
    /\ extracted = NoExtraction
    /\ qgenLog = <<>>
    /\ searchLog = <<>>
    /\ s1Log = <<>>
    /\ s2Log = <<>>
    /\ trace = <<>>
    /\ reportLog = NotCalled
    /\ calls = <<>>
    /\ DirectCall

\* The pipeline's environment: each call fails or gives one of a few answers.
PipelineQueryLens == {0, 3}
PipelineCounts == {3}
PipelineScores == {800}
PipelineStatuses == {"SUPPORTS"}
PipelineConfs == {600, 800}

Next ==
    \/ \E o \in ExtractOutcomes : ExtractClaims(o)
    \/ \E qo \in QGenOutcomes(PipelineQueryLens),
          so \in [1..QueryLimit -> SearchOutcomes(PipelineCounts)] :
          SearchClaim(qo, so)
    \/ SearchReturn
    \/ \E s1o \in CompletenessOutcomes(PipelineScores),
          s2o \in JudgmentOutcomes(PipelineStatuses, PipelineConfs) :
          VerifyClaim(s1o, s2o)
    \/ VerifyReturn
    \/ \E ok \in BOOLEAN : GenerateReport(ok)

Spec == Init /\ [][Next]_vars

(***************************************************************************)
(* verify_claims on its own: any claims, any evidence map, any threshold,  *)
(* and completeness scores and confidences around the thresholds.          *)
(***************************************************************************)

\* The position of the last claim with text t (0 when there is none): the
\* claim whose searches filled evidence_map[t].
RECURSIVE LastWithText(_, _, _)
LastWithText(l, t, n) ==
    IF n = 0 THEN 0
    ELSE IF l[n].text = t THEN n
    ELSE LastWithText(l, t, n - 1)

\* n evidence items as search_evidence collects them: MaxResults per query.
EvidenceItems(owner, n) ==
    [k \in 1..n |-> Evidence(owner, ((k - 1) \div MaxResults) + 1,
                                    ((k - 1) % MaxResults) + 1)]

VerifyClaimLists == SeqsUpTo({Claim(t, DefaultPriority) : t \in Texts}, MaxClaims)

InitVerify ==
    /\ pc = "verify"
    /\ input_text = InputText
    /\ claims \in VerifyClaimLists
    /\ \E keys \in SUBSET Texts : \E lens \in [keys -> {0, 2, 6}] :
          evidence_map = [t \in keys |->
              EvidenceItems(LastWithText(claims, t, Len(claims)), lens[t])]
    /\ verdicts = <<>>
    /\ final_report = ""
    /\ error = ""
    /\ confidence_threshold \in {700, 900}
    /\ s_i = Len(claims) + 1
    /\ s_map = evidence_map
    /\ s_results = <<>>
    /\ v_i = 1
    /\ v_verdicts = <<>>
    /\ extracted = [res |-> Returned, claims |-> claims]
    /\ qgenLog = <<>>
    /\ searchLog = <<>>
    /\ s1Log = <<>>
    /\ s2Log = <<>>
    /\ trace = <<"extract", "search">>
    /\ reportLog = NotCalled
    /\ calls = <<>>
    /\ DirectCall

NextVerify ==
    \/ \E s1o \in CompletenessOutcomes({699, 700}),
          s2o \in JudgmentOutcomes(Statuses, {699, 700, 900}) :
          VerifyClaim(s1o, s2o)
    \/ VerifyReturn

SpecVerify == InitVerify /\ [][NextVerify]_vars

(***************************************************************************)
(* Entry points: main.py and eval_fever.py call run_fact_check             *)
(***************************************************************************)
NumRuns == 2

\* def run_fact_check(input_text, openai_api_key, tavily_api_key,
\*                    model_name, output_file)
RunFactCheckParams ==
    {"input_text", "openai_api_key", "tavily_api_key", "model_name", "output_file"}

\* the keyword arguments each caller passes to run_fact_check
KeywordsOf(caller) ==
    IF caller = "cli"
    THEN {"input_text", "openai_api_key", "tavily_api_key", "model_name",
          "output_file", "search_domain"}
    ELSE {"input_text", "openai_api_key", "tavily_api_key", "model_name"}

\* A call binds when the function has a parameter for every keyword passed;
\* otherwise Python raises TypeError before the body runs.
CallBinds(keywords, params) == keywords \subseteq params

\* main.py checks only the first key
MainCredentialError_OpenAIOnly(o, t) ==
    IF ~o THEN "OPENAI_API_KEY not found" ELSE ""

\* main.py: the two checks after os.getenv, each followed by sys.exit(1)
MainCredentialError(o, t) ==
    IF ~o THEN "OPENAI_API_KEY not found"
    ELSE IF ~t THEN "TAVILY_API_KEY not found"
    ELSE ""

\* evaluate_on_fever: raise ValueError when either key is missing
EvalCredentialError(o, t) ==
    IF ~o \/ ~t THEN "API keys not found" ELSE ""

\* What has to stay as it is while an entry point runs outside the pipeline.
pipelineLocals == <<s_i, s_map, s_results, v_i, v_verdicts>>
runHistory == <<extracted, qgenLog, searchLog, s1Log, s2Log, trace, reportLog, calls>>

\* main(): credential checks, then run_fact_check inside try/except
\* Exception, which prints the error and calls sys.exit(1).
MainCli ==
    /\ pc = "main"
    /\ entry = "cli"
    /\ IF MainCredentialError(openai_key, tavily_key) # ""
       THEN /\ exit_status' = 1
            /\ exit_message' = MainCredentialError(openai_key, tavily_key)
            /\ pc' = "exited"
       ELSE IF CallBinds(KeywordsOf("cli"), RunFactCheckParams)
            THEN /\ pc' = "call"
                 /\ UNCHANGED <<exit_status, exit_message>>
            ELSE /\ exit_status' = 1
                 /\ exit_message' = "Error during fact-checking"
                 /\ pc' = "exited"
    /\ UNCHANGED <<stateVars, confidence_threshold, pipelineLocals, runHistory,
                   entry, openai_key, tavily_key, wikipedia_only, search_domain,
                   run, prev, memo, det, batchVars>>

\* evaluate_on_fever up to the submission of the items: the ValueError for
\* missing keys is not caught and ends the script.
EvaluateOnFever ==
    /\ pc = "main"
    /\ entry = "eval"
    /\ IF EvalCredentialError(openai_key, tavily_key) # ""
       THEN /\ exit_status' = 1
            /\ exit_message' = EvalCredentialError(openai_key, tavily_key)
            /\ pc' = "exited"
       ELSE /\ pc' = "call"
            /\ UNCHANGED <<exit_status, exit_message>>
    /\ UNCHANGED <<stateVars, confidence_threshold, pipelineLocals, runHistory,
                   entry, openai_key, tavily_key, wikipedia_only, search_domain,
                   run, prev, memo, det, batchVars>>

\* the state object is handed the lists of the run before
NewState_SharedLists(text) ==
    [input_text |-> text, claims |-> claims, evidence_map |-> evidence_map,
     verdicts |-> verdicts, final_report |-> "", error |-> ""]

\* FactCheckState(input_text=text): every other field takes its default
NewState(text) ==
    [input_text |-> text, claims |-> <<>>, evidence_map |-> EmptyMap,
     verdicts |-> <<>>, final_report |-> "", error |-> ""]

\* run_fact_check up to workflow.invoke: create_fact_check_workflow builds
\* the agents with their defaults, then the initial state is created.
RunFactCheck ==
    /\ pc = "call"
    /\ CallBinds(KeywordsOf(entry), RunFactCheckParams)
    /\ run' = run + 1
    /\ search_domain' = NoDomain
    /\ confidence_threshold' = DefaultThreshold
    /\ LET initial_state == NewState(InputText)
       IN  /\ input_text' = initial_state.input_text
           /\ claims' = initial_state.claims
           /\ evidence_map' = initial_state.evidence_map
           /\ verdicts' = initial_state.verdicts
           /\ final_report' = initial_state.final_report
           /\ error' = initial_state.error
    /\ pc' = "extract"
    /\ extracted' = NoExtraction
    /\ qgenLog' = <<>>
    /\ searchLog' = <<>>
    /\ s1Log' = <<>>
    /\ s2Log' = <<>>
    /\ trace' = <<>>
    /\ reportLog' = NotCalled
    /\ calls' = <<>>
    /\ UNCHANGED <<pipelineLocals, entry, openai_key, tavily_key, wikipedia_only,
                   exit_status, exit_message, prev, memo, det, batchVars>>

\* What a finished run leaves: its claims, the status of each verdict, and
\* whether workflow.invoke returned.
RunResult ==
    [claims |-> claims,
     statuses |-> [i \in DOMAIN verdicts |-> verdicts[i].status],
     returned |-> pc = "done"]

\* The run is over and control is back in the caller: main() prints the
\* report, or exits with 1 from its except block; the evaluation goes on
\* to its next item whether the run returned or raised.
EndRun ==
    /\ pc \in {"done", "aborted"}
    /\ entry \in {"cli", "eval"}
    /\ prev' = Append(prev, RunResult)
    /\ IF entry = "cli"
       THEN /\ pc' = "exited"
            /\ exit_status' = IF pc = "done" THEN 0 ELSE 1
            /\ exit_message' = IF pc = "done" THEN "" ELSE "Error during fact-checking"
       ELSE IF run < NumRuns
            THEN /\ pc' = "call"
                 /\ UNCHANGED <<exit_status, exit_message>>
            ELSE /\ pc' = "exited"
                 /\ exit_status' = 0
                 /\ exit_message' = ""
    /\ UNCHANGED <<stateVars, confidence_threshold, pipelineLocals, runHistory,
                   entry, openai_key, tavily_key, wikipedia_only, search_domain,
                   run, memo, det, batchVars>>

\* no FactCheckState and no agent exists yet
NoRunYet ==
    /\ input_text = ""
    /\ claims = <<>>
    /\ evidence_map = EmptyMap
    /\ verdicts = <<>>
    /\ final_report = ""
    /\ error = ""
    /\ confidence_threshold = DefaultThreshold
    /\ s_i = 1
    /\ s_map = EmptyMap
    /\ s_results = <<>>
    /\ v_i = 1
    /\ v_verdicts = <<>>
    /\ extracted = NoExtraction
    /\ qgenLog = <<>>
    /\ searchLog = <<>>
    /\ s1Log = <<>>
    /\ s2Log = <<>>
    /\ trace = <<>>
    /\ reportLog = NotCalled
    /\ calls = <<>>

InitRuns ==
    /\ pc = "main"
    /\ entry \in {"cli", "eval"}
    /\ openai_key \in BOOLEAN
    /\ tavily_key \in BOOLEAN
    /\ wikipedia_only \in (IF entry = "cli" THEN BOOLEAN ELSE {FALSE})
    /\ exit_status = NoExit
    /\ exit_message = ""
    /\ search_domain = NoDomain
    /\ run = 0
    /\ prev = <<>>
    /\ memo = NoMemo
    /\ det = TRUE
    /\ NoBatch
    /\ NoRunYet

NextRuns ==
    \/ MainCli
    \/ EvaluateOnFever
    \/ RunFactCheck
    \/ \E o \in ExtractOutcomes : ExtractClaims(o)
    \/ \E qo \in QGenOutcomes(PipelineQueryLens),
          so \in [1..QueryLimit -> SearchOutcomes(PipelineCounts)] :
          SearchClaim(qo, so)
    \/ SearchReturn
    \/ \E s1o \in CompletenessOutcomes(PipelineScores),
          s2o \in JudgmentOutcomes(PipelineStatuses, PipelineConfs) :
          VerifyClaim(s1o, s2o)
    \/ VerifyReturn
    \/ \E ok \in BOOLEAN : GenerateReport(ok)
    \/ EndRun

SpecRuns == InitRuns /\ [][NextRuns]_vars

(***************************************************************************)
(* evaluate_on_fever: the worker pool and the collection loop              *)
(***************************************************************************)
MaxItems == 2
MaxWorkers == 2

FeverLabels == {"SUPPORTS", "REFUTES", "NOT ENOUGH INFO"}

\* Labels as the data file gives them: a label string, or an integer label,
\* written "int:0" for 0 (SUPPORTS).
ItemLabels == {"SUPPORTS", "NOT ENOUGH INFO", "int:0"}

\* label_map of process_single_claim, applied to integer labels only
MapLabel(label) ==
    CASE label = "int:0" -> "SUPPORTS"
      [] label = "int:1" -> "REFUTES"
      [] label = "int:2" -> "NOT ENOUGH INFO"
      [] OTHER -> label

\* map_verdict_to_fever
MapVerdictToFever(status) ==
    IF status \in FeverLabels THEN status ELSE "NOT ENOUGH INFO"

\* What run_fact_check did for one item: raised, or returned a state with
\* no, one or two verdicts, given here by status and confidence.
RunOutcomes ==
    LET RunVerdicts == {[status |-> "SUPPORTS", confidence |-> 900],
                        [status |-> "NOT ENOUGH INFO", confidence |-> 1000]}
    IN  {[raised |-> TRUE, verdicts |-> <<>>]} \cup
        {[raised |-> FALSE, verdicts |-> v] :
            v \in {<<>>} \cup {<<a>> : a \in RunVerdicts}
                        \cup {<<a, b>> : a, b \in RunVerdicts}}

\* the prediction read from the last verdict
PredictionOf_Last(result) ==
    IF result.verdicts # <<>>
    THEN [label |-> MapVerdictToFever(result.verdicts[Len(result.verdicts)].status),
          confidence |-> result.verdicts[Len(result.verdicts)].confidence]
    ELSE [label |-> "NOT ENOUGH INFO", confidence |-> 0]

\* "Get prediction": from result.verdicts[0], or the default without verdicts
PredictionOf(result) ==
    IF result.verdicts # <<>>
    THEN [label |-> MapVerdictToFever(result.verdicts[1].status),
          confidence |-> result.verdicts[1].confidence]
    ELSE [label |-> "NOT ENOUGH INFO", confidence |-> 0]

\* process_single_claim: the dictionary it returns. Its except branch hands
\* back the item's label as it is in the data.
ResultEntry(index, label, out) ==
    IF out.raised
    THEN [index |-> index, true_label |-> label,
          predicted_label |-> "NOT ENOUGH INFO", correct |-> FALSE,
          confidence |-> 0]
    ELSE LET true_label == MapLabel(label)
             predicted_label == PredictionOf(out).label
         IN  [index |-> index, true_label |-> true_label,
              predicted_label |-> predicted_label,
              correct |-> (predicted_label = true_label),
              confidence |-> PredictionOf(out).confidence]

\* Python indices of the items: enumerate(fever_data) counts from 0.
IndexOf(i) == i - 1

pipelineVars == <<stateVars, confidence_threshold, pipelineLocals, runHistory,
                  entry, openai_key, tavily_key, wikipedia_only, exit_status,
                  exit_message, search_domain, run, prev, memo, det>>

\* A free worker takes the next submitted task, in submission order.
StartWorker ==
    /\ pc = "batch"
    /\ Cardinality(started) < Len(fever_data)
    /\ Cardinality(started \ DOMAIN futures) < MaxWorkers
    /\ started' = started \cup {Cardinality(started) + 1}
    /\ UNCHANGED <<pc, pipelineVars, fever_data, futures, collected, results,
                   correct, total, label_stats, runs, pool>>

\* A worker finishes process_single_claim for item i.
ProcessSingleClaim(i, out) ==
    /\ pc = "batch"
    /\ i \in started \ DOMAIN futures
    /\ runs' = MapPut(runs, i, out)
    /\ futures' = MapPut(futures, i, ResultEntry(IndexOf(i), fever_data[i], out))
    /\ UNCHANGED <<pc, pipelineVars, fever_data, started, collected, results,
                   correct, total, label_stats, pool>>

\* The loop counting an entry as correct only when the futures complete in
\* submission order
CollectResult_InOrder(i) ==
    /\ pc = "batch"
    /\ i \in DOMAIN futures \ collected
    /\ collected' = collected \cup {i}
    /\ LET result_entry == futures[i]
           true_label == result_entry.true_label
           hit == result_entry.correct /\ collected = 1..(i - 1)
       IN  IF true_label \in DOMAIN label_stats
           THEN /\ correct' = IF hit THEN correct + 1 ELSE correct
                /\ total' = total + 1
                /\ label_stats' =
                      [label_stats EXCEPT ![true_label] =
                          [correct |-> IF hit THEN @.correct + 1 ELSE @.correct,
                           total |-> @.total + 1]]
                /\ results' = Append(results, result_entry)
           ELSE /\ correct' = IF hit THEN correct + 1 ELSE correct
                /\ total' = IF hit THEN total + 1 ELSE total + 2
                /\ UNCHANGED <<label_stats, results>>
    /\ UNCHANGED <<pc, pipelineVars, fever_data, started, futures, runs, pool>>

\* One pass of the loop over as_completed(future_to_item), for a finished
\* future. label_stats[true_label] raises KeyError for a label that is not
\* one of its three keys; the except branch then counts the item again.
CollectResult(i) ==
    /\ pc = "batch"
    /\ i \in DOMAIN futures \ collected
    /\ collected' = collected \cup {i}
    /\ LET result_entry == futures[i]
           true_label == result_entry.true_label
       IN  IF true_label \in DOMAIN label_stats
           THEN /\ correct' = IF result_entry.correct THEN correct + 1 ELSE correct
                /\ total' = total + 1
                /\ label_stats' =
                      [label_stats EXCEPT ![true_label] =
                          [correct |-> IF result_entry.correct THEN @.correct + 1 ELSE @.correct,
                           total |-> @.total + 1]]
                /\ results' = Append(results, result_entry)
           ELSE /\ correct' = IF result_entry.correct THEN correct + 1 ELSE correct
                /\ total' = IF result_entry.correct THEN total + 1 ELSE total + 2
                /\ UNCHANGED <<label_stats, results>>
    /\ UNCHANGED <<pc, pipelineVars, fever_data, started, futures, runs, pool>>

RECURSIVE InsertByIndex(_, _)
InsertByIndex(e, sorted) ==
    IF sorted = <<>> THEN <<e>>
    ELSE IF e.index < sorted[1].index
         THEN <<e>> \o sorted
         ELSE <<sorted[1]>> \o InsertByIndex(e, Tail(sorted))

\* results.sort(key=lambda x: x.get("index", 0))
RECURSIVE SortByIndex(_)
SortByIndex(l) ==
    IF l = <<>> THEN <<>>
    ELSE InsertByIndex(l[Len(l)], SortByIndex(SubSeq(l, 1, Len(l) - 1)))

\* The pool has shut down and the loop is over: results are sorted.
SortResults ==
    /\ pc = "batch"
    /\ collected = DOMAIN fever_data
    /\ results' = SortByIndex(results)
    /\ pc' = "sorted"
    /\ UNCHANGED <<pipelineVars, fever_data, started, futures, collected,
                   correct, total, label_stats, runs, pool>>

InitBatch ==
    /\ pc = "batch"
    /\ entry = "eval"
    /\ openai_key = TRUE
    /\ tavily_key = TRUE
    /\ wikipedia_only = FALSE
    /\ exit_status = NoExit
    /\ exit_message = ""
    /\ search_domain = NoDomain
    /\ run = 0
    /\ prev = <<>>
    /\ memo = NoMemo
    /\ det = FALSE
    /\ NoRunYet
    /\ fever_data \in UNION {[1..n -> ItemLabels] : n \in 1..MaxItems}
    /\ started = {}
    /\ futures = EmptyMap
    /\ collected = {}
    /\ results = <<>>
    /\ correct = 0
    /\ total = 0
    /\ label_stats = NoStats
    /\ runs = EmptyMap
    /\ pool = EmptyMap

NextBatch ==
    \/ StartWorker
    \/ \E i \in 1..MaxItems, out \in RunOutcomes : ProcessSingleClaim(i, out)
    \/ \E i \in 1..MaxItems : CollectResult(i)
    \/ SortResults

SpecBatch == InitBatch /\ [][NextBatch]_vars

(***************************************************************************)
(* The worker pool with the runs spelled out: each worker's call of        *)
(* run_fact_check goes through the four nodes, interleaved with the others *)
(***************************************************************************)
\* no collaborator has answered the run yet
NoAnswers ==
    [extract |-> NoExtraction, qgen |-> [res |-> NotCalled, queries |-> <<>>],
     search |-> [res |-> NotCalled, count |-> 0, results |-> <<>>],
     check |-> NoCompleteness, judge |-> NoJudgment, report |-> NotCalled]

\* every node is handed the state of the run started last
StateOf_Latest(p, i) ==
    p[CHOOSE j \in DOMAIN p : \A k \in DOMAIN p : k <= j].state

\* fact_check_state = state["state"]: the FactCheckState that
\* run_fact_check created for this call and handed to workflow.invoke
StateOf(p, i) == p[i].state

\* extract_claims on a state
AfterExtract(st, o) ==
    [st EXCEPT !.claims = ExtractedClaims(o, st.input_text),
               !.error = IF o.res = Returned THEN @ ELSE ExtractionError]

\* the local evidence_map of search_evidence after the first n claims
RECURSIVE SearchedMap(_, _, _, _)
SearchedMap(claim_list, n, qo, so) ==
    IF n = 0 THEN EmptyMap
    ELSE LET claim == claim_list[n]
             issued == IssuedQueries(QueriesFor(claim, qo))
             evidence_list ==
                 CollectEvidence(n, Len(issued), [j \in 1..QueryLimit |-> so])
         IN  MapPut(SearchedMap(claim_list, n - 1, qo, so),
                    EvidenceKey(claim, issued), evidence_list)

\* search_evidence on a state
AfterSearch(st, qo, so) ==
    [st EXCEPT !.evidence_map = SearchedMap(st.claims, Len(st.claims), qo, so),
               !.error = IF st.claims = <<>> THEN @ ELSE ErrorAfterQGen(@, qo)]

\* the local verdicts of verify_claims after the first n claims
RECURSIVE VerdictsAfter(_, _, _, _)
VerdictsAfter(st, n, check, raw) ==
    IF n = 0 THEN <<>>
    ELSE Extended(VerdictsAfter(st, n - 1, check, raw),
                  AppendedVerdicts(st.claims[n],
                                   MapGet(st.evidence_map, st.claims[n].text),
                                   ValidatedCompleteness(check),
                                   ValidatedJudgment(raw), DefaultThreshold))

\* verify_claims on a state
AfterVerify(st, check, raw) ==
    [st EXCEPT !.verdicts = VerdictsAfter(st, Len(st.claims), check, raw)]

\* generate_report on a state; when the call raises nothing is assigned
AfterReport(st, ok) ==
    [st EXCEPT !.final_report = IF ok THEN "report" ELSE @]

\* A worker takes the next task: process_single_claim calls run_fact_check,
\* which builds its workflow and FactCheckState(input_text=claim).
PoolStart(text) ==
    /\ pc = "batch"
    /\ Cardinality(started) < Len(fever_data)
    /\ Cardinality(DOMAIN pool) < MaxWorkers
    /\ LET i == Cardinality(started) + 1
       IN  /\ started' = started \cup {i}
           /\ pool' = MapPut(pool, i, [pc |-> "extract", text |-> text,
                                       state |-> NewState(text),
                                       answers |-> NoAnswers])
    /\ UNCHANGED <<pc, pipelineVars, fever_data, futures, collected, results,
                   correct, total, label_stats, runs>>

\* extract_claims_node of run i
PoolExtract(i, o) ==
    /\ i \in DOMAIN pool
    /\ pool[i].pc = "extract"
    /\ pool' = [pool EXCEPT ![i].state = AfterExtract(StateOf(pool, i), o),
                            ![i].answers.extract = o,
                            ![i].pc = NextNode("extract")]
    /\ UNCHANGED <<pc, pipelineVars, fever_data, started, futures, collected,
                   results, correct, total, label_stats, runs>>

\* search_evidence_node of run i
PoolSearch(i, qo, so) ==
    /\ i \in DOMAIN pool
    /\ pool[i].pc = "search"
    /\ pool' = [pool EXCEPT ![i].state = AfterSearch(StateOf(pool, i), qo, so),
                            ![i].answers.qgen = qo,
                            ![i].answers.search = so,
                            ![i].pc = NextNode("search")]
    /\ UNCHANGED <<pc, pipelineVars, fever_data, started, futures, collected,
                   results, correct, total, label_stats, runs>>

\* verify_claims_node of run i
PoolVerify(i, check, raw) ==
    /\ i \in DOMAIN pool
    /\ pool[i].pc = "verify"
    /\ pool' = [pool EXCEPT ![i].state = AfterVerify(StateOf(pool, i), check, raw),
                            ![i].answers.check = check,
                            ![i].answers.judge = raw,
                            ![i].pc = NextNode("verify")]
    /\ UNCHANGED <<pc, pipelineVars, fever_data, started, futures, collected,
                   results, correct, total, label_stats, runs>>

\* generate_report_node of run i
PoolReport(i, ok) ==
    /\ i \in DOMAIN pool
    /\ pool[i].pc = "report"
    /\ pool' = [pool EXCEPT ![i].state = AfterReport(StateOf(pool, i), ok),
                            ![i].answers.report = IF ok THEN Returned ELSE Raised,
                            ![i].pc = ReportExit(ok)]
    /\ UNCHANGED <<pc, pipelineVars, fever_data, started, futures, collected,
                   results, correct, total, label_stats, runs>>

\* what process_single_claim sees of a run that is over
OutcomeOf(r) ==
    IF r.pc = "aborted"
    THEN [raised |-> TRUE, verdicts |-> <<>>]
    ELSE [raised |-> FALSE,
          verdicts |-> [k \in DOMAIN r.state.verdicts |->
                           [status |-> r.state.verdicts[k].status,
                            confidence |-> r.state.verdicts[k].confidence]]]

\* run_fact_check returns or raises, process_single_claim returns its entry
\* and the worker is free again.
PoolReturn(i) ==
    /\ pc = "batch"
    /\ i \in DOMAIN pool
    /\ pool[i].pc \in {"done", "aborted"}
    /\ runs' = MapPut(runs, i, OutcomeOf(pool[i]))
    /\ futures' = MapPut(futures, i,
                         ResultEntry(IndexOf(i), fever_data[i], OutcomeOf(pool[i])))
    /\ pool' = [j \in DOMAIN pool \ {i} |-> pool[j]]
    /\ UNCHANGED <<pc, pipelineVars, fever_data, started, collected, results,
                   correct, total, label_stats>>

\* The steps of the workers. Within one run the collaborators answer every
\* claim alike; two runs may get different answers to the same question.
NextPool ==
    \/ \E text \in Texts : PoolStart(text)
    \/ \E i \in 1..MaxItems,
          o \in {[res |-> Raised, claims |-> <<>>],
                 [res |-> Returned, claims |-> <<Claim("a", 5), Claim("b", 8)>>]} :
          PoolExtract(i, o)
    \/ \E i \in 1..MaxItems,
          qo \in {[res |-> Returned, queries |-> Take(GeneratedQueries, 1)]},
          so \in SearchOutcomes({1}) :
          PoolSearch(i, qo, so)
    \/ \E i \in 1..MaxItems,
          check \in {CompletenessCheck(TRUE, 800)},
          raw \in JudgmentOutcomes({"SUPPORTS"}, {800}) :
          PoolVerify(i, check, raw)
    \/ \E i \in 1..MaxItems, ok \in BOOLEAN : PoolReport(i, ok)
    \/ \E i \in 1..MaxItems : PoolReturn(i)

\* the evaluation has loaded its items; no task has been taken up yet
InitPool ==
    /\ InitBatch
    /\ \A i \in DOMAIN fever_data : fever_data[i] = "SUPPORTS"

SpecPool == InitPool /\ [][NextPool]_vars

\* The state of a run that runs alone, is given the same text and answers,
\* and has come to the same node.
AloneAt(node, text, answers) ==
    LET s0 == NewState(text)
        s1 == AfterExtract(s0, answers.extract)
        s2 == AfterSearch(s1, answers.qgen, answers.search)
        s3 == AfterVerify(s2, answers.check, answers.judge)
        s4 == AfterReport(s3, answers.report = Returned)
    IN  CASE node = "extract" -> s0
          [] node = "search" -> s1
          [] node = "verify" -> s2
          [] node = "report" -> s3
          [] OTHER -> s4

(***************************************************************************)
(* verify_claims with the default threshold and a verdict model that may   *)
(* answer outside the VerdictOutput schema.                                *)
(***************************************************************************)

InitAttempts ==
    /\ InitVerify
    /\ confidence_threshold = DefaultThreshold

NextAttempts ==
    \/ \E s1o \in CompletenessOutcomes({699, 800}),
          s2o \in JudgmentOutcomes(Statuses, {600, 800}) \cup OffSchemaJudgments :
          VerifyClaim(s1o, s2o)
    \/ VerifyReturn

SpecAttempts == InitAttempts /\ [][NextAttempts]_vars

(***************************************************************************)
(* verify_claims with models whose numbers may be outside [0, 1], or at    *)
(* its ends.                                                               *)
(***************************************************************************)

NextRange ==
    \/ \E s1o \in CompletenessOutcomes({0, 699, 1000}) \cup OutOfRangeChecks,
          s2o \in JudgmentOutcomes({"SUPPORTS"}, {0, 1000}) \cup OutOfRangeJudgments :
          VerifyClaim(s1o, s2o)
    \/ VerifyReturn

SpecRange == InitAttempts /\ [][NextRange]_vars

(***************************************************************************)
(* verify_claims at the boundaries: completeness scores at and just below  *)
(* 0.7, confidences at and just below either threshold.                    *)
(***************************************************************************)
NextBoundary ==
    \/ \E s1o \in {CompletenessCheck(TRUE, 700), CompletenessCheck(TRUE, 699),
                    CompletenessCheck(FALSE, 700)},
          s2o \in {VerdictOutput(st, c) : st \in {"SUPPORTS", "REFUTES"},
                                          c \in {699, 700, 899, 900}} :
          VerifyClaim(s1o, s2o)
    \/ VerifyReturn

SpecBoundary == InitVerify /\ [][NextBoundary]_vars

(***************************************************************************)
(* search_evidence on its own: any claims; query generation fails or       *)
(* gives no, one or three queries; each search fails or returns no, one or *)
(* two results, with long content and with a missing score among them.     *)
(***************************************************************************)

SearchResponses ==
    {[res |-> Raised, count |-> 0, results |-> <<>>],
     [res |-> Returned, count |-> 0, results |-> <<>>],
     [res |-> Returned, count |-> 1,
      results |-> <<ProviderResult(SnippetLimit + 100, NoScore)>>],
     [res |-> Returned, count |-> 2,
      results |-> <<ProviderResult(100, 900), ProviderResult(SnippetLimit, 0)>>]}

InitSearch ==
    /\ pc = "search"
    /\ input_text = InputText
    /\ \/ /\ claims \in VerifyClaimLists
          /\ extracted = [res |-> Returned, claims |-> claims]
          /\ error = ""
       \/ /\ claims = FallbackClaims(input_text)
          /\ extracted = [res |-> Raised, claims |-> <<>>]
          /\ error = ExtractionError
    /\ evidence_map = EmptyMap
    /\ verdicts = <<>>
    /\ final_report = ""
    /\ confidence_threshold = DefaultThreshold
    /\ s_i = 1
    /\ s_map = EmptyMap
    /\ s_results = <<>>
    /\ v_i = 1
    /\ v_verdicts = <<>>
    /\ qgenLog = <<>>
    /\ searchLog = <<>>
    /\ s1Log = <<>>
    /\ s2Log = <<>>
    /\ trace = <<"extract">>
    /\ reportLog = NotCalled
    /\ calls = <<>>
    /\ DirectCall

NextSearch ==
    \/ \E qo \in QGenOutcomes({0, 1, 3}),
          so \in [1..QueryLimit -> SearchResponses] :
          SearchClaim(qo, so)
    \/ SearchReturn

SpecSearch == InitSearch /\ [][NextSearch]_vars

(***************************************************************************)
(* Properties                                                              *)
(***************************************************************************)
\* verify_claims has returned
VerifyReturned == pc \in {"report", "done", "aborted"}

\* the evidence verify_claims reads for the claim at position i
EvidenceOf(i) == MapGet(evidence_map, claims[i].text)

\* positions verify_claims has processed so far
Processed == DOMAIN v_verdicts \cap DOMAIN s1Log \cap DOMAIN s2Log

\* C1: when verify_claims has returned, state.verdicts holds exactly one
\* verdict per claim, whatever the evidence and whichever model calls failed.
C1_OneVerdictPerClaim ==
    VerifyReturned => Len(verdicts) = Len(claims)

\* a returned run in which one claim had no evidence, one stopped at the
\* completeness gate and one fell back after a failed verdict call
C1_Witness ==
    /\ VerifyReturned
    /\ Len(claims) >= 2
    /\ Len(verdicts) = Len(claims)
    /\ \E i, j \in DOMAIN verdicts :
          /\ s2Log[i].res = Raised
          /\ s1Log[j].res \in {NotCalled, Returned}
          /\ s2Log[j].res = NotCalled

\* C2: a claim whose evidence list is empty gets NOT ENOUGH INFO with
\* confidence 1.0, the fixed justification and no evidence, and neither the
\* completeness model nor the verdict model is called for it.
C2_NoEvidence ==
    \A i \in Processed :
        EvidenceOf(i) = <<>> =>
            /\ v_verdicts[i].claim = claims[i].text
            /\ v_verdicts[i].status = "NOT ENOUGH INFO"
            /\ v_verdicts[i].confidence = 1000
            /\ v_verdicts[i].justification = <<"No evidence was found for this claim.">>
            /\ v_verdicts[i].evidence_used = <<>>
            /\ s1Log[i].res = NotCalled
            /\ s2Log[i].res = NotCalled

\* a claim without evidence was processed next to a claim with evidence
C2_Witness ==
    \E i, j \in Processed :
        /\ EvidenceOf(i) = <<>>
        /\ EvidenceOf(j) # <<>>
        /\ s2Log[j].res = Returned

\* C3: a Stage-2 judgment other than NOT ENOUGH INFO whose confidence is
\* strictly below the configured threshold is persisted as NOT ENOUGH INFO
\* with the returned confidence, and its justification carries the original
\* status and the confidence (as formatted, to two decimals).
C3_Downgrade ==
    \A i \in Processed :
        (/\ s2Log[i].res = Returned
         /\ s2Log[i].status # "NOT ENOUGH INFO"
         /\ s2Log[i].confidence < confidence_threshold) =>
            /\ v_verdicts[i].status = "NOT ENOUGH INFO"
            /\ v_verdicts[i].confidence = s2Log[i].confidence
            /\ Len(v_verdicts[i].justification) = 5
            /\ v_verdicts[i].justification[1] = "Low confidence"
            /\ v_verdicts[i].justification[2] = (s2Log[i].confidence + 5) \div 10
            /\ v_verdicts[i].justification[4] = s2Log[i].status

\* a SUPPORTS judgment at 0.7, below a threshold of 0.9, was downgraded
C3_Witness ==
    \E i \in Processed :
        /\ s2Log[i].res = Returned
        /\ s2Log[i].status = "SUPPORTS"
        /\ s2Log[i].confidence = 700
        /\ confidence_threshold = 900
        /\ v_verdicts[i].status = "NOT ENOUGH INFO"

\* C4: a verdict with status SUPPORTS or REFUTES has confidence at or above
\* the threshold, a non-empty evidence_used, and comes from a verdict call
\* that returned that same status.
C4_PositiveNeedsConfidence ==
    \A i \in Processed :
        v_verdicts[i].status \in {"SUPPORTS", "REFUTES"} =>
            /\ v_verdicts[i].confidence >= confidence_threshold
            /\ v_verdicts[i].evidence_used # <<>>
            /\ s2Log[i].res = Returned
            /\ s2Log[i].status = v_verdicts[i].status

\* a REFUTES verdict was persisted after the completeness call had raised
C4_Witness ==
    \E i \in Processed :
        /\ v_verdicts[i].status = "REFUTES"
        /\ s1Log[i].res = Raised
        /\ v_verdicts[i].confidence = confidence_threshold

\* C5: when the completeness call returns is_complete = false or a score
\* below 0.7, the verdict is NOT ENOUGH INFO with the returned score as
\* confidence and the first (at most) 3 evidence items, and the verdict
\* model is not called for that claim.
C5_Stage1Gate ==
    \A i \in Processed :
        (/\ s1Log[i].res = Returned
         /\ \/ ~s1Log[i].is_complete
            \/ s1Log[i].completeness_score < 700) =>
            /\ v_verdicts[i].status = "NOT ENOUGH INFO"
            /\ v_verdicts[i].confidence = s1Log[i].completeness_score
            /\ v_verdicts[i].evidence_used
                   = SubSeq(EvidenceOf(i), 1, Min(3, Len(EvidenceOf(i))))
            /\ s2Log[i].res = NotCalled

\* the gate stopped a claim on the score alone (is_complete = true, 0.699)
\* and one on is_complete alone (false, 0.7), the latter with 6 items
C5_Witness ==
    \E i, j \in Processed :
        /\ s1Log[i].res = Returned /\ s1Log[i].is_complete
        /\ s1Log[i].completeness_score = 699
        /\ s1Log[j].res = Returned /\ ~s1Log[j].is_complete
        /\ s1Log[j].completeness_score = 700
        /\ Len(EvidenceOf(j)) = 6
        /\ Len(v_verdicts[j].evidence_used) = 3

\* C6: when the completeness call raises, Stage 1 emits nothing, the verdict
\* model is called, and the claim's verdict is the Stage-2 one: the judgment,
\* its downgrade, or the fallback.
C6_Stage1FailOpen ==
    \A i \in Processed :
        s1Log[i].res = Raised =>
            /\ EvidenceOf(i) # <<>>
            /\ s2Log[i].res \in {Returned, Raised}
            /\ s2Log[i].res = Raised =>
                  /\ v_verdicts[i].status = "NOT ENOUGH INFO"
                  /\ v_verdicts[i].confidence = 0
                  /\ v_verdicts[i].justification[1] = "Error processing verdict: "
            /\ s2Log[i].res = Returned =>
                  /\ v_verdicts[i].confidence = s2Log[i].confidence
                  /\ v_verdicts[i].status =
                        IF /\ s2Log[i].status # "NOT ENOUGH INFO"
                           /\ s2Log[i].confidence < confidence_threshold
                        THEN "NOT ENOUGH INFO"
                        ELSE s2Log[i].status
                  /\ v_verdicts[i].justification[Len(v_verdicts[i].justification)]
                        = s2Log[i].justification

\* the completeness call raised for two claims; one was then judged
\* SUPPORTS, the other fell back
C6_Witness ==
    \E i, j \in Processed :
        /\ s1Log[i].res = Raised /\ s1Log[j].res = Raised
        /\ v_verdicts[i].status = "SUPPORTS"
        /\ s2Log[j].res = Raised

\* the state part of C7: the fallback verdict's fields, and one verdict per
\* processed claim while the loop runs and when it has returned
C7_FallbackInv ==
    /\ \A i \in Processed :
          s2Log[i].res = Raised =>
              /\ v_verdicts[i].claim = claims[i].text
              /\ v_verdicts[i].status = "NOT ENOUGH INFO"
              /\ v_verdicts[i].confidence = 0
              /\ Len(v_verdicts[i].evidence_used) <= 3
    /\ pc = "verify" => Len(v_verdicts) = v_i - 1 /\ Len(s2Log) = v_i - 1
    /\ VerifyReturned => Len(verdicts) = Len(claims) /\ Len(s2Log) = Len(claims)

\* C7: when the verdict call raises, the claim's verdict is NOT ENOUGH INFO
\* with confidence 0.0 and at most 3 evidence items; the loop goes on (one
\* verdict per processed claim, all claims processed at return) and the
\* verdicts already appended are left as they were.
C7_Fallback ==
    /\ []C7_FallbackInv
    /\ [][\A i \in DOMAIN v_verdicts :
              i \in DOMAIN v_verdicts' /\ v_verdicts'[i] = v_verdicts[i]]_vars

\* the verdict call raised for the first claim and the second claim was
\* still judged, and verify_claims returned
C7_Witness ==
    /\ VerifyReturned
    /\ Len(claims) >= 2
    /\ s2Log[1].res = Raised
    /\ s2Log[2].res = Returned
    /\ verdicts[2].status = "SUPPORTS"
    /\ Len(verdicts[1].evidence_used) = 3

\* C8: every verdict, whichever branch produced it, has at most 3 items in
\* evidence_used.
C8_EvidenceUsedBound ==
    /\ \A i \in DOMAIN v_verdicts : Len(v_verdicts[i].evidence_used) <= 3
    /\ \A i \in DOMAIN verdicts : Len(verdicts[i].evidence_used) <= 3

\* a claim with 6 evidence items got a verdict with exactly 3
C8_Witness ==
    \E i \in DOMAIN verdicts :
        /\ Len(EvidenceOf(i)) = 6
        /\ Len(verdicts[i].evidence_used) = 3
        /\ s2Log[i].res = Returned

IndexPermutations(n) == {f \in [1..n -> 1..n] : \A i, j \in 1..n : i # j => f[i] # f[j]}

\* out is the list in rearranged by a stable sort on descending priority
StableSortedDesc(in, out) ==
    /\ Len(out) = Len(in)
    /\ \E f \in IndexPermutations(Len(in)) :
          /\ \A i \in 1..Len(in) : out[i] = in[f[i]]
          /\ \A i, j \in 1..Len(in) :
                i < j =>
                    /\ out[i].priority >= out[j].priority
                    /\ out[i].priority = out[j].priority => f[i] < f[j]

\* C9: after a successful extraction state.claims is the returned list
\* sorted by descending priority, ties in extraction order; it stays so, and
\* searches are issued, verdicts appended and verdicts output in that order.
C9_SortedStable ==
    extracted.res = Returned =>
        /\ StableSortedDesc(extracted.claims, claims)
        /\ \A k, l \in DOMAIN searchLog :
              k < l => searchLog[k].owner <= searchLog[l].owner
        /\ Len(qgenLog) <= Len(claims)
        /\ \A i \in DOMAIN v_verdicts :
              i \in DOMAIN claims /\ v_verdicts[i].claim = claims[i].text
        /\ \A i \in DOMAIN verdicts :
              i \in DOMAIN claims /\ verdicts[i].claim = claims[i].text

\* a finished run whose extraction returned a lower priority first: the
\* claims were reordered and both were searched and verified
C9_Witness ==
    /\ pc = "done"
    /\ extracted.res = Returned
    /\ Len(claims) >= 2
    /\ extracted.claims[1].priority < extracted.claims[2].priority
    /\ claims[1] = extracted.claims[2]
    /\ \E k, l \in DOMAIN searchLog : searchLog[k].owner = 1 /\ searchLog[l].owner = 2
    /\ verdicts[1].claim # verdicts[2].claim

\* C10: when the extraction call raises, extract_claims returns normally with
\* a non-empty error and the single claim (input_text, priority 5), and the
\* run goes on through the later stages.
C10_ExtractionFallback ==
    extracted.res = Raised =>
        /\ error # ""
        /\ claims = <<[text |-> input_text, priority |-> 5]>>
        /\ pc \in {"search", "verify", "report", "done", "aborted"}
        /\ pc \in {"report", "done", "aborted"} => Len(verdicts) = 1

\* a run whose extraction failed was searched, verified and reported
C10_Witness ==
    /\ extracted.res = Raised
    /\ pc = "done"
    /\ searchLog # <<>>
    /\ Len(verdicts) = 1
    /\ verdicts[1].claim = input_text
    /\ final_report # ""

(***************************************************************************)
(* Stage order                                                             *)
(***************************************************************************)
\* The nodes of the graph in the order of its edges.
StageOrder == <<"extract", "search", "verify", "report">>

\* How many nodes have returned when control is at a given place.
StagesDone(place) ==
    CASE place = "extract" -> 0
      [] place = "search" -> 1
      [] place = "verify" -> 2
      [] place = "report" -> 3
      [] place \in {"done", "aborted"} -> 4

\* The nodes that have run are an initial part of the stage order, without
\* gap or repetition, and control is at the node that follows them.
C11_StageOrderInv ==
    /\ Len(trace) <= Len(StageOrder)
    /\ trace = Take(StageOrder, Len(trace))
    /\ Len(trace) = StagesDone(pc)

\* C11: within one run the four stages run in the order extract_claims,
\* search_evidence, verify_claims, generate_report, each exactly once; a
\* stage does its work only after the stage before it has returned and
\* before the stage after it begins.
C11_StagesInOrder ==
    /\ []C11_StageOrderInv
    /\ [][ /\ (claims' # claims \/ extracted' # extracted) => trace = <<>>
           /\ (qgenLog' # qgenLog \/ searchLog' # searchLog
                  \/ evidence_map' # evidence_map)
                 => trace = Take(StageOrder, 1)
           /\ (s1Log' # s1Log \/ s2Log' # s2Log \/ calls' # calls
                  \/ verdicts' # verdicts)
                 => trace = Take(StageOrder, 2)
           /\ (final_report' # final_report \/ reportLog' # reportLog)
                 => trace = Take(StageOrder, 3)
           /\ trace' # trace => /\ trace' = Append(trace, StageOrder[Len(trace) + 1])
                                /\ pc = StageOrder[Len(trace) + 1]
         ]_vars

C11_Witness ==
    /\ pc = "done"
    /\ trace = StageOrder
    /\ Len(claims) >= 1
    /\ Len(verdicts) = Len(claims)
    /\ final_report # ""

(***************************************************************************)
(* Failures                                                                *)
(***************************************************************************)
\* Every search request of one claim fails.
AllSearchesFail ==
    [q \in 1..QueryLimit |-> [res |-> Raised, count |-> 0, results |-> <<>>]]

\* Whatever has failed so far, a stage that has not returned can take its
\* next step when the call it makes fails too.
C12_FailuresDegrade ==
    /\ pc = "extract" => ENABLED ExtractClaims([res |-> Raised, claims |-> <<>>])
    /\ (pc = "search" /\ s_i <= Len(claims))
          => ENABLED SearchClaim([res |-> Raised, queries |-> <<>>], AllSearchesFail)
    /\ (pc = "search" /\ s_i > Len(claims)) => ENABLED SearchReturn
    /\ (pc = "verify" /\ v_i <= Len(claims))
          => ENABLED VerifyClaim(CompletenessRaised, JudgmentRaised)
    /\ (pc = "verify" /\ v_i > Len(claims)) => ENABLED VerifyReturn

\* The run is aborted exactly when the report call has raised, after the
\* first three stages have returned, and then no report was produced.
C12_AbortInv ==
    /\ pc = "aborted" <=> reportLog = Raised
    /\ pc = "done" <=> reportLog = Returned
    /\ pc = "aborted" => /\ final_report = ""
                         /\ Take(trace, 3) = Take(StageOrder, 3)
                         /\ Len(verdicts) = Len(claims)
    /\ pc \notin {"done", "aborted"} => reportLog = NotCalled

\* C12: whatever extraction, query, search, completeness and verdict calls
\* fail, the first three stages go on and return and the run reaches the
\* report stage; a failure of the report call aborts the run: control never
\* reaches the end of the graph and no final report exists.
C12_ReportFailureAborts ==
    /\ []C12_FailuresDegrade
    /\ []C12_AbortInv
    /\ [][pc' = "aborted" => (pc = "report" /\ reportLog' = Raised)]_vars
    /\ [][pc = "aborted" => FALSE]_vars

C12_Witness ==
    /\ pc = "aborted"
    /\ reportLog = Raised
    /\ extracted.res = Raised
    /\ \E i \in DOMAIN qgenLog : qgenLog[i].res = Raised
    /\ \E i \in DOMAIN s1Log : s1Log[i].res = Raised
    /\ \E i \in DOMAIN s2Log : s2Log[i].res = Raised
    /\ final_report = ""

(***************************************************************************)
(* Model calls per claim                                                   *)
(***************************************************************************)
\* How many times a model was invoked for the claim at position i.
CallCount(model, i) ==
    Cardinality({k \in DOMAIN calls : calls[k].model = model /\ calls[k].claim = i})

\* The path the claim at position i took through the loop body.
PathOf(i) ==
    LET nc == CallCount("completeness", i)
        nv == CallCount("verdict", i)
    IN  CASE nc = 0 /\ nv = 0 -> "START->NEI"
          [] nc = 1 /\ nv = 0 -> "START->STAGE1->NEI"
          [] nc = 1 /\ nv = 1
               -> IF s2Log[i].res = Returned /\ v_verdicts[i].status = s2Log[i].status
                  THEN "START->STAGE1->STAGE2->final"
                  ELSE "START->STAGE1->STAGE2->NEI"
          [] OTHER -> "none"

C13_SingleAttemptInv ==
    /\ v_i <= Len(claims) + 1
    /\ Len(v_verdicts) = Min(v_i, Len(claims) + 1) - 1
    /\ VerifyReturned => Processed = DOMAIN claims
    /\ \A k \in DOMAIN calls : calls[k].claim \in Processed
    /\ \A i \in Processed :
          LET nc == CallCount("completeness", i)
              nv == CallCount("verdict", i)
              path == PathOf(i)
          IN  /\ nc <= 1
              /\ nv <= 1
              /\ nc = 1 <=> s1Log[i].res # NotCalled
              /\ nv = 1 <=> s2Log[i].res # NotCalled
              /\ \A k \in DOMAIN calls : \A l \in DOMAIN calls :
                    (k < l /\ calls[k].claim = i /\ calls[l].claim = i)
                        => (calls[k].model = "completeness" /\ calls[l].model = "verdict")
              /\ path # "none"
              /\ path = "START->NEI"
                    => EvidenceOf(i) = <<>> /\ v_verdicts[i].status = NEI
              /\ path = "START->STAGE1->NEI"
                    => /\ EvidenceOf(i) # <<>>
                       /\ s1Log[i].res = Returned
                       /\ v_verdicts[i].status = NEI
              /\ path = "START->STAGE1->STAGE2->NEI"
                    => /\ EvidenceOf(i) # <<>>
                       /\ v_verdicts[i].status = NEI
                       /\ \/ s2Log[i].res = Raised
                          \/ /\ s2Log[i].res = Returned
                             /\ s2Log[i].status # NEI
                             /\ s2Log[i].confidence < confidence_threshold
              /\ path = "START->STAGE1->STAGE2->final"
                    => EvidenceOf(i) # <<>>

\* C13: verification of a claim ends after one pass through the loop body:
\* the completeness model is invoked at most once and the verdict model at
\* most once for it, a call that failed is not made again, and the claim
\* takes exactly one of the four paths from START to a verdict.
C13_SingleAttempt ==
    /\ []C13_SingleAttemptInv
    /\ [][v_i' # v_i => /\ v_i' = v_i + 1
                        /\ Len(v_verdicts') = Len(v_verdicts) + 1
                        /\ Len(calls') <= Len(calls) + 2
                        /\ \A k \in DOMAIN calls : calls'[k] = calls[k]]_vars

C13_Witness ==
    \E i \in Processed :
        /\ s1Log[i].res = Raised
        /\ s2Log[i].res = Raised
        /\ CallCount("completeness", i) = 1
        /\ CallCount("verdict", i) = 1
        /\ PathOf(i) = "START->STAGE1->STAGE2->NEI"
        /\ VerifyReturned

(***************************************************************************)
(* Verdict statuses                                                        *)
(***************************************************************************)
\* C19: the status of every verdict, in the list being built and in
\* state.verdicts, is SUPPORTS, REFUTES or NOT ENOUGH INFO, whatever the
\* model calls return and however they fail.
C19_StatusEnum ==
    /\ \A i \in DOMAIN v_verdicts :
          v_verdicts[i].status \in {"SUPPORTS", "REFUTES", "NOT ENOUGH INFO"}
    /\ \A i \in DOMAIN verdicts :
          verdicts[i].status \in {"SUPPORTS", "REFUTES", "NOT ENOUGH INFO"}

C19_Witness ==
    /\ VerifyReturned
    /\ \E i \in DOMAIN verdicts :
          /\ s2Log[i].res = Raised
          /\ s2Log[i].status = "MAYBE"
          /\ verdicts[i].status = NEI
    /\ \E i \in DOMAIN verdicts : verdicts[i].status = "REFUTES"

(***************************************************************************)
(* Evidence ownership                                                      *)
(***************************************************************************)
\* The position of the claim whose search returned an evidence item.
OwnerOf(ev) == ev.source[1]

\* C20: for every claim, the evidence shown to the verifier and the evidence
\* recorded in the claim's verdict come only from searches issued for that
\* claim, also when two claims have the same text.
C20_EvidenceNotShared ==
    pc \in {"verify", "report", "done", "aborted"} =>
        /\ \A i \in DOMAIN claims :
              \A k \in DOMAIN EvidenceText(EvidenceOf(i)) :
                  OwnerOf(EvidenceOf(i)[k]) = i
        /\ \A i \in DOMAIN v_verdicts :
              \A k \in DOMAIN v_verdicts[i].evidence_used :
                  OwnerOf(v_verdicts[i].evidence_used[k]) = i

(***************************************************************************)
(* Runs                                                                    *)
(***************************************************************************)
InRun == pc \in {"extract", "search", "verify", "report", "done", "aborted"}

\* C15: with collaborators that answer equal inputs equally, failures
\* included, every run on the same input text gives the same sequence of
\* claims and the same verdict status for every claim as the first run.
C15_Deterministic ==
    /\ \A r \in DOMAIN prev :
          /\ prev[r].claims = prev[1].claims
          /\ prev[r].statuses = prev[1].statuses
    /\ (Len(prev) >= 1 /\ InRun /\ StagesDone(pc) >= 1) => claims = prev[1].claims
    /\ (Len(prev) >= 1 /\ InRun /\ StagesDone(pc) >= 3)
          => [i \in DOMAIN verdicts |-> verdicts[i].status] = prev[1].statuses

C15_Witness ==
    /\ det
    /\ Len(prev) >= 2
    /\ Len(prev[2].claims) >= 2
    /\ \E i \in DOMAIN prev[2].statuses : prev[2].statuses[i] = "SUPPORTS"
    /\ \E i \in DOMAIN prev[2].statuses : prev[2].statuses[i] = NEI
    /\ \E i \in DOMAIN s2Log : s2Log[i].res = Raised
    /\ \E i \in DOMAIN qgenLog : qgenLog[i].res = Raised

\* C16: with OPENAI_API_KEY or TAVILY_API_KEY absent the entry point stops
\* with a non-zero status and the credential error, and in that invocation
\* no run is started, no stage runs, no model and no search call is made.
C16_MissingCredentials ==
    (entry \in {"cli", "eval"} /\ (~openai_key \/ ~tavily_key)) =>
        /\ pc \in {"main", "exited"}
        /\ pc = "main" => ENABLED (MainCli \/ EvaluateOnFever)
        /\ pc = "exited" =>
              /\ exit_status # 0
              /\ exit_status # NoExit
              /\ exit_message \in {"OPENAI_API_KEY not found",
                                    "TAVILY_API_KEY not found",
                                    "API keys not found"}
        /\ run = 0
        /\ trace = <<>>
        /\ memo = NoMemo
        /\ calls = <<>>
        /\ searchLog = <<>>
        /\ prev = <<>>

C16_Witness ==
    /\ entry = "cli"
    /\ openai_key
    /\ ~tavily_key
    /\ pc = "exited"
    /\ exit_status = 1
    /\ trace = <<>>

\* C17: a command-line run with --wikipedia-only completes, and all its
\* search requests carry the domain filter wikipedia.org; with no domain
\* filter configured no search request carries one.
C17_DomainFilter ==
    /\ (entry = "cli" /\ wikipedia_only /\ openai_key /\ tavily_key /\ pc = "exited")
          => /\ exit_status = 0
             /\ Len(prev) = 1
             /\ \A k \in DOMAIN searchLog :
                   searchLog[k].include_domains = <<"wikipedia.org">>
    /\ search_domain = NoDomain
          => \A k \in DOMAIN searchLog : searchLog[k].include_domains = <<>>

\* The state a stage is handed when the run begins.
C18_FreshStateInv ==
    /\ pc = "extract" =>
          /\ input_text = InputText
          /\ claims = <<>>
          /\ evidence_map = EmptyMap
          /\ verdicts = <<>>
          /\ final_report = ""
          /\ error = ""
    /\ run = Len(prev) + (IF InRun THEN 1 ELSE 0)

\* C18: a run starts from a state in which only input_text is set, and
\* run_fact_check creates that state once per run: control enters the first
\* stage only from the creation of the state, which starts exactly one run.
C18_FreshState ==
    /\ []C18_FreshStateInv
    /\ [][(pc' = "extract" \/ run' # run)
            => (pc = "call" /\ pc' = "extract" /\ run' = run + 1)]_vars

C18_Witness ==
    /\ pc = "extract"
    /\ run = 2
    /\ Len(prev) = 1
    /\ Len(prev[1].claims) >= 1
    /\ Len(prev[1].statuses) >= 1
    /\ claims = <<>>
    /\ verdicts = <<>>

(***************************************************************************)
(* Batch evaluation                                                        *)
(***************************************************************************)
\* C14: whatever the order in which the workers finish, the sorted results
\* list has one entry per submitted item, in ascending order of submission
\* index, and entry k is the result of item k.
C14_BatchResults ==
    pc = "sorted" =>
        /\ Len(results) = Len(fever_data)
        /\ \A k \in DOMAIN results :
              /\ results[k].index = IndexOf(k)
              /\ k \in DOMAIN futures
              /\ results[k] = futures[k]
(***************************************************************************)
(* search_evidence: the evidence map                                       *)
(***************************************************************************)
\* search_evidence has returned
SearchReturned == pc # "search" /\ Len(trace) >= 2 /\ trace[2] = "search"

ClaimTexts == {claims[i].text : i \in DOMAIN claims}

\* C21: after search_evidence returns, every key of state.evidence_map is the
\* text of one of state.claims, whatever the claims and whichever
\* query-generation and search calls failed.
C21_KeysAreClaimTexts ==
    /\ DOMAIN s_map \subseteq ClaimTexts
    /\ SearchReturned => DOMAIN evidence_map \subseteq ClaimTexts

\* search_evidence returned for two claims after a query generation and a
\* search had failed, and the map has a key
C21_Witness ==
    /\ SearchReturned
    /\ Len(claims) = 2
    /\ DOMAIN evidence_map # {}
    /\ \E i \in DOMAIN qgenLog : qgenLog[i].res = Raised
    /\ s_results # <<>> /\ s_results[1].res = Raised

(***************************************************************************)
(* verify_claims: claims the evidence map has no key for                   *)
(***************************************************************************)
\* the model calls made for the claim at position i
CallsFor(i) == {k \in DOMAIN calls : calls[k].claim = i}

\* C22: a claim whose text is not a key of state.evidence_map is treated as
\* a claim with an empty evidence list is: NOT ENOUGH INFO with confidence
\* 1.0, no model call, no error, and the loop goes on.
C22_MissingKey ==
    \A i \in Processed :
        claims[i].text \notin DOMAIN evidence_map =>
            /\ v_verdicts[i] = NoEvidenceVerdict(claims[i])
            /\ v_verdicts[i].status = "NOT ENOUGH INFO"
            /\ v_verdicts[i].confidence = 1000
            /\ s1Log[i] = NoCompleteness
            /\ s2Log[i] = NoJudgment
            /\ CallsFor(i) = {}
            /\ error = ""
            /\ pc \in {"verify", "report"}
            /\ v_i > i

\* a claim without a key was processed, and after it a claim whose key
\* holds the empty list, with the same outcome
C22_Witness ==
    /\ VerifyReturned
    /\ \E i, j \in Processed :
          /\ i < j
          /\ claims[i].text \notin DOMAIN evidence_map
          /\ claims[j].text \in DOMAIN evidence_map
          /\ evidence_map[claims[j].text] = <<>>
          /\ s1Log[i] = s1Log[j] /\ s2Log[i] = s2Log[j]
          /\ v_verdicts[i].status = v_verdicts[j].status
          /\ v_verdicts[i].confidence = v_verdicts[j].confidence

(***************************************************************************)
(* search_evidence: failing searches                                       *)
(***************************************************************************)
\* the claim the last iteration of the search loop handled (0: none yet)
LastSearched == IF qgenLog = <<>> THEN 0 ELSE Len(qgenLog)

\* the evidence items of list l that came from the query at position j
FromQuery(l, j) == SelectSeq(l, LAMBDA e : e.source[2] = j)

\* the search requests issued for the claim at position i
RequestsFor(i) == SelectSeq(searchLog, LAMBDA r : r.owner = i)

\* C23: a search that raises is skipped and nothing else is aborted: the
\* claim's remaining queries are still issued, the results of its other
\* queries are kept, later claims are processed, search_evidence returns;
\* a claim all of whose searches raise ends with an empty evidence list.
C23_FailingSearchSkipped ==
    /\ LastSearched > 0 =>
          LET i == LastSearched
              issued == IssuedQueries(QueriesFor(claims[i], qgenLog[i]))
              list == s_map[claims[i].text]
          IN  /\ Len(s_results) = Len(issued)
              /\ Len(RequestsFor(i)) = Len(issued)
              /\ \A j \in DOMAIN s_results :
                    /\ RequestsFor(i)[j].query = issued[j]
                    /\ Len(FromQuery(list, j)) =
                          IF s_results[j].res = Raised THEN 0
                          ELSE Len(s_results[j].results)
              /\ (\A j \in DOMAIN s_results : s_results[j].res = Raised)
                    => list = <<>>
    /\ pc \in {"search", "verify"}
    /\ error = IF extracted.res = Raised THEN ExtractionError ELSE ""
    /\ (pc = "search" /\ s_i <= Len(claims)) => LastSearched = s_i - 1
    /\ (pc = "search" /\ s_i > Len(claims)) => ENABLED SearchReturn
    /\ SearchReturned =>
          /\ Len(qgenLog) = Len(claims)
          /\ \A i \in DOMAIN claims : claims[i].text \in DOMAIN evidence_map

\* search_evidence returned for two claims: the first has evidence from its
\* second query only; the second search of the last claim raised and the
\* two results of its first search were kept
C23_Witness ==
    /\ SearchReturned
    /\ Len(claims) = 2
    /\ claims[1].text # claims[2].text
    /\ Len(RequestsFor(1)) = 2
    /\ evidence_map[claims[1].text] # <<>>
    /\ \A k \in DOMAIN evidence_map[claims[1].text] :
          evidence_map[claims[1].text][k].source[2] = 2
    /\ Len(s_results) = 2
    /\ s_results[1].res = Returned /\ s_results[2].res = Raised
    /\ Len(evidence_map[claims[2].text]) = 2

(***************************************************************************)
(* search_evidence: the requests                                           *)
(***************************************************************************)
\* C24: for each claim at most 2 search requests are issued, for the first
\* two generated queries in their order, each with max_results = 3 and
\* depth "advanced", however many queries were generated.
C24_SearchRequests ==
    \A i \in DOMAIN qgenLog :
        LET requests == RequestsFor(i)
            generated == qgenLog[i].queries
        IN  /\ Len(requests) <= 2
            /\ \A j \in DOMAIN requests :
                  /\ requests[j].max_results = 3
                  /\ requests[j].search_depth = "advanced"
            /\ qgenLog[i].res = Returned =>
                  /\ Len(requests) = Min(Len(generated), 2)
                  /\ \A j \in DOMAIN requests : requests[j].query = generated[j]

\* three queries were generated for a claim and one for another
C24_Witness ==
    /\ SearchReturned
    /\ \E i, k \in DOMAIN qgenLog :
          /\ Len(qgenLog[i].queries) = 3
          /\ Len(RequestsFor(i)) = 2
          /\ Len(qgenLog[k].queries) = 1
          /\ Len(RequestsFor(k)) = 1

\* C25: when the query-formulation call for a claim raises, exactly one
\* search is issued for the claim, its query being the claim's text; the
\* loop goes on with the remaining claims and state.error is left as the
\* extraction stage set it.
C25_QueryFallback ==
    /\ \A i \in DOMAIN qgenLog :
          qgenLog[i].res = Raised =>
              /\ Len(RequestsFor(i)) = 1
              /\ RequestsFor(i)[1].query = claims[i].text
              /\ Len(qgenLog) = i => Len(s_results) = 1
    /\ error = IF extracted.res = Raised THEN ExtractionError ELSE ""
    /\ pc = "search" => Len(qgenLog) = s_i - 1
    /\ SearchReturned => Len(qgenLog) = Len(claims)

\* the query generation of the first of two claims raised, that of the
\* second gave three queries, and the fallback search returned evidence
C25_Witness ==
    /\ SearchReturned
    /\ Len(claims) = 2
    /\ claims[1].text # claims[2].text
    /\ qgenLog[1].res = Raised
    /\ evidence_map[claims[1].text] # <<>>
    /\ qgenLog[2].res = Returned
    /\ Len(RequestsFor(2)) = 2

(***************************************************************************)
(* search_evidence: the Evidence items                                     *)
(***************************************************************************)
\* how many results the searches before the one at position j returned
RECURSIVE ResultsBefore(_, _)
ResultsBefore(responses, j) ==
    IF j <= 1 THEN 0
    ELSE ResultsBefore(responses, j - 1) + Len(responses[j - 1].results)

IsPrefix(l, m) == Len(l) <= Len(m) /\ \A k \in DOMAIN l : l[k] = m[k]

\* the prompt text 'shown' lists exactly the evidence items of l, in order
Shows(shown, l) ==
    /\ Len(shown) = Len(l)
    /\ \A k \in DOMAIN shown :
          shown[k] = <<"Source", l[k].source, "Snippet", l[k].snippet>>

\* C27: the completeness model and the verdict model are shown the same
\* evidence, the first min(n, 5) items of the claim's n; evidence_used of
\* the claim's verdict is the first min(n, 3) items, a prefix of what was
\* shown.
C27_EvidenceShownAndUsed ==
    /\ \A k \in DOMAIN calls :
          LET list == EvidenceOf(calls[k].claim)
          IN  Shows(calls[k].shown, SubSeq(list, 1, Min(Len(list), 5)))
    /\ \A i \in Processed :
          LET list == EvidenceOf(i)
              used == v_verdicts[i].evidence_used
          IN  /\ used = SubSeq(list, 1, Min(Len(list), 3))
              /\ IsPrefix(used, SubSeq(list, 1, Min(Len(list), 5)))
              /\ \A k \in CallsFor(i) :
                    /\ Len(used) <= Len(calls[k].shown)
                    /\ \A u \in DOMAIN used :
                          calls[k].shown[u][2] = used[u].source

\* a claim with six evidence items went through both stages and a claim
\* with two was stopped by the completeness gate
C27_Witness ==
    \E i, j \in Processed :
        /\ Len(EvidenceOf(i)) = 6
        /\ s1Log[i].res = Returned /\ s2Log[i].res = Returned
        /\ Cardinality(CallsFor(i)) = 2
        /\ Len(v_verdicts[i].evidence_used) = 3
        /\ Len(EvidenceOf(j)) = 2
        /\ s1Log[j].res = Returned /\ s2Log[j].res = NotCalled
        /\ Len(v_verdicts[j].evidence_used) = 2

(***************************************************************************)
(* verify_claims: judgments the downgrade does not apply to                *)
(***************************************************************************)
\* C28: a Stage-2 judgment with status NOT ENOUGH INFO, whatever its
\* confidence, or with status SUPPORTS or REFUTES and a confidence at or
\* above the threshold is persisted unchanged: status, confidence and
\* justification are those the verdict model returned.
C28_JudgmentPersisted ==
    \A i \in Processed :
        (/\ s2Log[i].res = Returned
         /\ \/ s2Log[i].status = "NOT ENOUGH INFO"
            \/ /\ s2Log[i].status \in {"SUPPORTS", "REFUTES"}
               /\ s2Log[i].confidence >= confidence_threshold) =>
            /\ v_verdicts[i].claim = claims[i].text
            /\ v_verdicts[i].status = s2Log[i].status
            /\ v_verdicts[i].confidence = s2Log[i].confidence
            /\ v_verdicts[i].justification = <<s2Log[i].justification>>

\* a NOT ENOUGH INFO judgment below the threshold and a REFUTES judgment
\* exactly at the threshold were both persisted as returned
C28_Witness ==
    \E i, j \in Processed :
        /\ s2Log[i].res = Returned
        /\ s2Log[i].status = "NOT ENOUGH INFO"
        /\ s2Log[i].confidence < confidence_threshold
        /\ v_verdicts[i].confidence = s2Log[i].confidence
        /\ v_verdicts[i].justification = <<s2Log[i].justification>>
        /\ s2Log[j].res = Returned
        /\ s2Log[j].status = "REFUTES"
        /\ s2Log[j].confidence = confidence_threshold
        /\ v_verdicts[j].status = "REFUTES"

(***************************************************************************)
(* The pipeline state: which stage writes which field                      *)
(***************************************************************************)
\* C29: each stage writes only its own field of the pipeline state:
\* extract_claims claims (and error when the extraction failed),
\* search_evidence evidence_map, verify_claims verdicts, generate_report
\* final_report; input_text is never changed and the claims are not
\* changed after extraction.
C29_Step ==
    /\ input_text' = input_text
    /\ pc # "extract" => claims' = claims
    /\ pc = "extract" =>
          /\ UNCHANGED <<evidence_map, verdicts, final_report>>
          /\ error' # error => extracted'.res = Raised
    /\ pc = "search" => UNCHANGED <<verdicts, final_report, error>>
    /\ pc = "verify" => UNCHANGED <<evidence_map, final_report, error>>
    /\ pc = "report" => UNCHANGED <<evidence_map, verdicts, error>>

C29_OwnFieldOnly == [][C29_Step]_vars

\* every stage has written its field, after an extraction that returned
\* two claims and a query generation that raised
C29_Witness ==
    /\ pc = "done"
    /\ Len(claims) = 2
    /\ evidence_map # EmptyMap
    /\ Len(verdicts) = 2
    /\ final_report # ""
    /\ \E i \in DOMAIN qgenLog : qgenLog[i].res = Raised

(***************************************************************************)
(* Verdict confidences                                                     *)
(***************************************************************************)
\* C30: every verdict has a confidence in [0, 1], on every branch of the
\* verifier: 1.0 without evidence, the completeness score when the gate
\* stops the claim, the judged confidence for a judgment persisted or
\* downgraded, 0.0 for the fallback.
C30_ConfidenceRange ==
    /\ \A i \in DOMAIN verdicts : verdicts[i].confidence \in 0..1000
    /\ \A i \in Processed :
          /\ v_verdicts[i].confidence \in 0..1000
          /\ v_verdicts[i].confidence =
                IF EvidenceOf(i) = <<>> THEN 1000
                ELSE IF s2Log[i].res = NotCalled THEN s1Log[i].completeness_score
                ELSE IF s2Log[i].res = Returned THEN s2Log[i].confidence
                ELSE 0

\* a completeness answer with a score of 1.2 and a judgment with a
\* confidence of 1.2 were both rejected, and another claim was stopped by
\* the gate at a score of 0.699
C30_Witness ==
    /\ VerifyReturned
    /\ \E i \in DOMAIN verdicts :
          /\ s1Log[i].res = Raised
          /\ s1Log[i].completeness_score = 1200
          /\ s2Log[i].res = Raised
          /\ s2Log[i].confidence = 1200
          /\ verdicts[i].confidence = 0
    /\ \E i \in DOMAIN verdicts :
          /\ s1Log[i].res = Returned
          /\ s2Log[i].res = NotCalled
          /\ verdicts[i].confidence = 699

(***************************************************************************)
(* state.error                                                             *)
(***************************************************************************)
\* C32: state.error is set by claim extraction only: it is non-empty exactly
\* when the extraction call failed, at every point of the run and at its
\* end; failed query generations, searches, completeness calls and verdict
\* calls leave it empty.
C32_ErrorOnlyFromExtraction ==
    /\ error # "" <=> extracted.res = Raised
    /\ extracted.res = Raised => error = "Claim extraction error: e"

\* a run ended with an empty error although the query generation and the
\* search of its first claim and both model calls of its second had failed
C32_Witness ==
    /\ pc = "done"
    /\ error = ""
    /\ extracted.res = Returned
    /\ Len(claims) = 2
    /\ claims[1].text # claims[2].text
    /\ qgenLog[1].res = Raised
    /\ Len(RequestsFor(1)) = 1
    /\ evidence_map[claims[1].text] = <<>>
    /\ s1Log[2].res = Raised
    /\ s2Log[2].res = Raised
    /\ verdicts[2].confidence = 0

(***************************************************************************)
(* Verdicts and claims, position by position                               *)
(***************************************************************************)
\* C33: the verdicts are aligned with the claims: the verdict at position i
\* is the verdict of the claim at position i, in the list being built and,
\* once verify_claims has returned, in state.verdicts, which therefore
\* follows the claims' descending order of priority.
C33_VerdictsAligned ==
    /\ \A i \in DOMAIN v_verdicts :
          i \in DOMAIN claims /\ v_verdicts[i].claim = claims[i].text
    /\ VerifyReturned =>
          /\ DOMAIN verdicts = DOMAIN claims
          /\ \A i \in DOMAIN verdicts : verdicts[i].claim = claims[i].text
          /\ \A i, j \in DOMAIN claims :
                i < j => claims[i].priority >= claims[j].priority

\* two claims that the extraction returned in ascending order of priority
\* were verified, the one without evidence and the other judged
C33_Witness ==
    /\ VerifyReturned
    /\ Len(extracted.claims) = 2
    /\ extracted.claims[1].priority < extracted.claims[2].priority
    /\ claims[1] = extracted.claims[2]
    /\ claims[1].text # claims[2].text
    /\ verdicts[1].claim = claims[1].text
    /\ verdicts[2].claim = claims[2].text
    /\ s2Log[1].res = NotCalled
    /\ s2Log[2].res = Returned

(***************************************************************************)
(* verify_claims: the boundaries of the two gates                          *)
(***************************************************************************)
\* C34: both gates accept at their boundary: a completeness result with
\* is_complete true and a score of exactly 0.7 goes on to Stage 2, and a
\* SUPPORTS or REFUTES judgment whose confidence equals the threshold is
\* persisted with its own status.
C34_InclusiveBoundaries ==
    \A i \in Processed :
        /\ (/\ s1Log[i].res = Returned
            /\ s1Log[i].is_complete
            /\ s1Log[i].completeness_score = 700) =>
               /\ s2Log[i].res # NotCalled
               /\ \E k \in CallsFor(i) : calls[k].model = "verdict"
        /\ (/\ s2Log[i].res = Returned
            /\ s2Log[i].status \in {"SUPPORTS", "REFUTES"}
            /\ s2Log[i].confidence = confidence_threshold) =>
               /\ v_verdicts[i].status = s2Log[i].status
               /\ v_verdicts[i].confidence = confidence_threshold

\* with a threshold of 0.9, a completeness score of exactly 0.7 let a claim
\* through to a REFUTES judgment of exactly 0.9, which was kept, while a
\* judgment at 0.899 for another claim was downgraded
C34_Witness ==
    /\ confidence_threshold = 900
    /\ \E i, j \in Processed :
          /\ s1Log[i].is_complete
          /\ s1Log[i].completeness_score = 700
          /\ s2Log[i].res = Returned
          /\ s2Log[i].status = "REFUTES"
          /\ s2Log[i].confidence = 900
          /\ v_verdicts[i].status = "REFUTES"
          /\ s2Log[j].res = Returned
          /\ s2Log[j].confidence = 899
          /\ v_verdicts[j].status = "NOT ENOUGH INFO"

(***************************************************************************)
(* A run without claims                                                    *)
(***************************************************************************)
\* the extraction call returned an empty list of claims
NothingExtracted == extracted.res = Returned /\ extracted.claims = <<>>

\* C35: the fallback claim is made only when the extraction call fails: when
\* it returns no claim, state.claims and error stay empty, no query is
\* generated, no search issued and no verification call made, every stage
\* still runs, and the run ends with no verdict and, when the report call
\* returns, with the generated report.
C35_NoClaims ==
    NothingExtracted =>
        /\ claims = <<>>
        /\ error = ""
        /\ qgenLog = <<>> /\ searchLog = <<>>
        /\ s1Log = <<>> /\ s2Log = <<>> /\ calls = <<>>
        /\ evidence_map = EmptyMap
        /\ verdicts = <<>>
        /\ pc = "search" => ENABLED SearchReturn
        /\ pc = "verify" => ENABLED VerifyReturn
        /\ pc = "report" => ENABLED GenerateReport(TRUE)
        /\ pc = "done" =>
              /\ trace = <<"extract", "search", "verify", "report">>
              /\ reportLog = Returned
              /\ final_report # ""
        /\ pc = "aborted" => reportLog = Raised

\* a run whose extraction returned no claim has ended with a report
C35_Witness ==
    /\ NothingExtracted
    /\ pc = "done"
    /\ claims = <<>>
    /\ verdicts = <<>>
    /\ final_report # ""

(***************************************************************************)
(* A claim without queries                                                 *)
(***************************************************************************)
\* C36: when the query generation of a claim returns an empty list, no
\* search is issued for the claim, the evidence the verifier reads for it
\* is empty, and its verdict is NOT ENOUGH INFO with confidence 1.0.
C36_EmptyQueries ==
    \A i \in DOMAIN qgenLog :
        (qgenLog[i].res = Returned /\ qgenLog[i].queries = <<>>) =>
            /\ RequestsFor(i) = <<>>
            /\ i \in DOMAIN v_verdicts =>
                  /\ EvidenceOf(i) = <<>>
                  /\ v_verdicts[i].status = "NOT ENOUGH INFO"
                  /\ v_verdicts[i].confidence = 1000

(***************************************************************************)
(* Batch accounting                                                        *)
(***************************************************************************)
\* C37: after all futures are collected, total is the number of submitted
\* items, correct <= total, the per-label totals sum to total, and every
\* submitted item has exactly one entry in results, whatever its label.
C37_BatchAccounting ==
    pc = "sorted" =>
        /\ total = Len(fever_data)
        /\ correct <= total
        /\ label_stats["SUPPORTS"].total + label_stats["REFUTES"].total
              + label_stats["NOT ENOUGH INFO"].total = total
        /\ \A i \in DOMAIN fever_data :
              Cardinality({k \in DOMAIN results : results[k].index = IndexOf(i)}) = 1

\* C38: correct, total and label_stats change only in a pass of the
\* collection loop, never in a worker, and after any set of futures has been
\* collected their values are a function of the collected entries alone, so
\* the final counters and the accuracy do not depend on the completion order.
C38_OrderIndependent ==
    /\ [](LET counted(l) == {i \in collected : futures[i].true_label = l}
              right == {i \in collected : futures[i].correct}
              twice == {i \in collected : /\ futures[i].true_label \notin FeverLabels
                                          /\ ~futures[i].correct}
          IN  /\ correct = Cardinality(right)
              /\ total = Cardinality(collected) + Cardinality(twice)
              /\ \A l \in FeverLabels :
                    /\ label_stats[l].total = Cardinality(counted(l))
                    /\ label_stats[l].correct = Cardinality(counted(l) \cap right))
    /\ [][<<correct, total, label_stats>> # <<correct', total', label_stats'>>
            => \E i \in DOMAIN futures \ collected :
                  /\ collected' = collected \cup {i}
                  /\ futures' = futures]_vars

\* Two items whose futures were collected in the reverse of the submission
\* order, the first wrong and the second right.
C38_Witness ==
    /\ pc = "batch"
    /\ Len(fever_data) = 2
    /\ collected = {1, 2}
    /\ Len(results) = 2
    /\ results[1].index = 1
    /\ results[1].correct
    /\ ~results[2].correct
    /\ correct = 1
    /\ total = 2

(***************************************************************************)
(* process_single_claim                                                    *)
(***************************************************************************)
\* C39: every worker that has finished has returned an entry for its item.
\* When the run raised, the entry carries the item's index, predicts
\* NOT ENOUGH INFO, is not correct and has confidence 0.0; when the run
\* returned no verdicts it predicts NOT ENOUGH INFO with confidence 0.0;
\* otherwise it predicts the status of the first verdict.
C39_EntryOfEveryRun ==
    /\ DOMAIN futures = DOMAIN runs
    /\ \A i \in DOMAIN runs :
          LET e == futures[i]
              r == runs[i]
          IN  /\ e.index = IndexOf(i)
              /\ r.raised =>
                    /\ e.predicted_label = "NOT ENOUGH INFO"
                    /\ ~e.correct
                    /\ e.confidence = 0
              /\ (~r.raised /\ r.verdicts = <<>>) =>
                    /\ e.predicted_label = "NOT ENOUGH INFO"
                    /\ e.confidence = 0
              /\ (~r.raised /\ r.verdicts # <<>>) =>
                    e.predicted_label = r.verdicts[1].status

\* One item's run raised; the other's returned two verdicts of which the
\* first supports and the second does not.
C39_Witness ==
    /\ DOMAIN runs = {1, 2}
    /\ runs[1].raised
    /\ futures[1].index = 0
    /\ ~runs[2].raised
    /\ Len(runs[2].verdicts) = 2
    /\ runs[2].verdicts[1].status = "SUPPORTS"
    /\ runs[2].verdicts[2].status = "NOT ENOUGH INFO"
    /\ futures[2].predicted_label = "SUPPORTS"

(***************************************************************************)
(* Concurrent runs                                                         *)
(***************************************************************************)
\* C31: whatever the interleaving of the runs under way in the pool, a step
\* changes the state of the one run that takes it and of no other, and the
\* claims, evidence_map, verdicts, final_report and error of every run are
\* those of the same run executed alone with the same text and the same
\* answers of its collaborators.
C31_RunsIsolated ==
    /\ [](\A i \in DOMAIN pool :
            pool[i].state = AloneAt(pool[i].pc, pool[i].text, pool[i].answers))
    /\ [][\A i \in DOMAIN pool \cap DOMAIN pool' :
            pool'[i].state # pool[i].state => pool'[i].pc # pool[i].pc]_vars

\* Two runs under way at once on different texts, both verified: the first
\* fell back on its input text as its claim and found it supported, the
\* second extracted two claims and found no evidence for them.
C31_Witness ==
    /\ DOMAIN pool = {1, 2}
    /\ pool[1].pc = "report"
    /\ pool[2].pc = "report"
    /\ pool[1].text # pool[2].text
    /\ pool[1].state.error # ""
    /\ pool[2].state.error = ""
    /\ Len(pool[2].state.claims) = 2
    /\ pool[1].state.verdicts[1].status = "SUPPORTS"
    /\ pool[2].state.claims[1].text = "b"
    /\ pool[2].state.evidence_map["b"] = <<>>
    /\ pool[2].state.verdicts[1].status = "NOT ENOUGH INFO"

====
